---- MODULE Spec2Model ----
(***************************************************************************)
(* Barcode detection / consolidation pipeline and pass generation of       *)
(* add2wallet (backend/app/services), as a state machine.                  *)
(*                                                                         *)
(* Bytes are integers 0..255, byte strings are sequences of bytes, text is *)
(* a sequence of Unicode code points, file names are sequences of          *)
(* one-character strings.                                                  *)
(***************************************************************************)
EXTENDS Integers, Sequences, FiniteSets, TLC

VARIABLES
    filename,   \* the request's file name
    pc,         \* position of the request / of the call under test
    barcodes,   \* the list a function is called with / extract_barcodes_from_pdf's working list
    result,     \* the value returned
    image,      \* what pyzbar.decode returns for the image handed to _try_formats
    calls,      \* decode_with_formats calls made by _try_formats (the group index of each)
    doc,        \* the document of the request: per page, the symbols it shows
    ran,        \* the detection strategies run so far, with what each yielded
    detected,   \* every detection a strategy returned: [raw_bytes, page, method]
    discarded,  \* what the cross-strategy duplicate filter removed, and as a duplicate of what
    hits,       \* number of successful image decodes of the request
    passes,     \* the pass.json of every pass generated for the upload
    warnings,   \* the warnings returned with the passes
    identity,   \* the signing identity of the deployment: environment values, certificate files
    pass_dir,   \* the temporary directory of the pass being packaged: file name -> content
    container,  \* the .pkpass returned: file name -> content
    pass_info,  \* the ticket metadata of the upload (AI or heuristic extraction)
    now,        \* the clock the process reads
    issued      \* number of uuid4 values drawn so far

callVars == <<image, calls>>
pipeVars == <<doc, ran, detected, discarded, hits>>
passVars == <<passes, warnings>>
pkgVars == <<identity, pass_dir, container>>
genVars == <<pass_info, now, issued>>
vars == <<filename, pc, barcodes, result, callVars, pipeVars, passVars, pkgVars, genVars>>

(***************************************************************************)
(* Bounds of the model.                                                    *)
(***************************************************************************)
MaxCands == 3
MaxPages == 2
MaxDetections == 2
MaxStyles == 2
MaxMissing == 1
MaxTickets == 3
MaxClock == 5
MaxDay == 2
MaxSymbols == 2
MaxConsolidated == 4
\* The longest payload scored by _calculate_confidence
LongestPayload == 28

(***************************************************************************)
(* Generic helpers.                                                        *)
(***************************************************************************)
Range(s) == {s[i] : i \in 1..Len(s)}

SeqsUpTo(S, n) == UNION {[1..k -> S] : k \in 0..n}

\* The subsets of S with at most n elements
RECURSIVE SubsetsUpTo(_, _)
SubsetsUpTo(S, n) ==
    IF n <= 0 THEN {{}}
    ELSE LET smaller == SubsetsUpTo(S, n - 1)
         IN  smaller \cup {T \cup {x} : T \in smaller, x \in S}

\* Python's sorted()/list.sort(): a stable sort of s; before[i][j] is
\* "the key of s[i] is smaller than the key of s[j]"
StableSort(s, before) ==
    LET n == Len(s)
        Rank(i) == Cardinality({j \in 1..n :
                        \/ before[j][i]
                        \/ (~before[i][j] /\ j < i)})
    IN  [k \in 1..n |-> s[CHOOSE i \in 1..n : Rank(i) = k - 1]]

\* Python's `needle in haystack` on strings
Contains(haystack, needle) ==
    \E i \in 0..(Len(haystack) - Len(needle)) :
        \A j \in 1..Len(needle) : haystack[i + j] = needle[j]

\* str.lower() on ASCII letters
UpperLetters ==
    <<"A","B","C","D","E","F","G","H","I","J","K","L","M",
      "N","O","P","Q","R","S","T","U","V","W","X","Y","Z">>

LowerLetters ==
    <<"a","b","c","d","e","f","g","h","i","j","k","l","m",
      "n","o","p","q","r","s","t","u","v","w","x","y","z">>

LowerChar(c) ==
    IF \E i \in 1..26 : UpperLetters[i] = c
    THEN LowerLetters[CHOOSE i \in 1..26 : UpperLetters[i] = c]
    ELSE c

Lower(s) == [i \in 1..Len(s) |-> LowerChar(s[i])]

(***************************************************************************)
(* Text codecs: bytes.decode('utf-8'), bytes.decode('iso-8859-1'),         *)
(* bytes.hex().                                                            *)
(***************************************************************************)
IsCont(b) == b >= 128 /\ b <= 191

\* Number of bytes of the first UTF-8 character of b, 0 when it is malformed
Utf8Width(b) ==
    LET n == Len(b)
        b1 == b[1]
    IN  IF b1 <= 127 THEN 1
        ELSE IF b1 >= 194 /\ b1 <= 223
             THEN IF n >= 2 /\ IsCont(b[2]) THEN 2 ELSE 0
        ELSE IF b1 >= 224 /\ b1 <= 239
             THEN IF /\ n >= 3
                     /\ IsCont(b[2])
                     /\ IsCont(b[3])
                     /\ (b1 = 224 => b[2] >= 160)
                     /\ (b1 = 237 => b[2] <= 159)
                  THEN 3 ELSE 0
        ELSE IF b1 >= 240 /\ b1 <= 244
             THEN IF /\ n >= 4
                     /\ IsCont(b[2])
                     /\ IsCont(b[3])
                     /\ IsCont(b[4])
                     /\ (b1 = 240 => b[2] >= 144)
                     /\ (b1 = 244 => b[2] <= 143)
                  THEN 4 ELSE 0
        ELSE 0

Utf8CodePoint(b, w) ==
    CASE w = 1 -> b[1]
      [] w = 2 -> (b[1] - 192) * 64 + (b[2] - 128)
      [] w = 3 -> (b[1] - 224) * 4096 + (b[2] - 128) * 64 + (b[3] - 128)
      [] w = 4 -> (b[1] - 240) * 262144 + (b[2] - 128) * 4096
                    + (b[3] - 128) * 64 + (b[4] - 128)

\* A validity test that accepts ASCII only
Utf8Valid_AsciiOnly(b) == \A i \in 1..Len(b) : b[i] <= 127

RECURSIVE Utf8Valid(_)
Utf8Valid(b) ==
    IF b = <<>> THEN TRUE
    ELSE LET w == Utf8Width(b)
         IN  w > 0 /\ Utf8Valid(SubSeq(b, w + 1, Len(b)))

RECURSIVE Utf8Decode(_)
Utf8Decode(b) ==
    IF b = <<>> THEN <<>>
    ELSE LET w == Utf8Width(b)
         IN  <<Utf8CodePoint(b, w)>> \o Utf8Decode(SubSeq(b, w + 1, Len(b)))

\* ISO-8859-1: every byte is the code point of the same number
Latin1Decode(b) == [i \in 1..Len(b) |-> b[i]]

\* bytes.hex(): two hexadecimal digits per byte
RECURSIVE Hex(_)
Hex(b) ==
    IF b = <<>> THEN <<>>
    ELSE <<Head(b) \div 16, Head(b) % 16>> \o Hex(Tail(b))

(***************************************************************************)
(* BarcodeExtractor: the detector.                                         *)
(*                                                                         *)
(* A detection is what pyzbar.decode reports for one symbol:               *)
(* [type, data (payload bytes), rect [left, top, width, height]].          *)
(* An image is the list of detections pyzbar.decode returns for it.        *)
(***************************************************************************)
format_groups ==
    << {"AZTEC"},
       {"QRCODE"},
       {"CODE128", "CODE39", "CODE93", "EAN8", "EAN13", "UPC_A", "UPC_E",
        "CODABAR", "ITF", "PDF417", "DATAMATRIX"} >>

NormalizeBarcodeFormat(barcode_type) ==
    CASE barcode_type = "QRCODE" -> "PKBarcodeFormatQR"
      [] barcode_type = "PDF417" -> "PKBarcodeFormatPDF417"
      [] barcode_type = "AZTEC"  -> "PKBarcodeFormatAztec"
      [] barcode_type \in {"CODE128", "CODE39", "CODE93", "EAN13", "EAN8",
                           "UPC_A", "UPC_E", "CODABAR", "ITF"}
                                 -> "PKBarcodeFormatCode128"
      [] barcode_type = "DATAMATRIX" -> "PKBarcodeFormatQR"
      [] OTHER -> "PKBarcodeFormatQR"

Min(a, b) == IF a <= b THEN a ELSE b

CalculateConfidence(barcode) ==
    Min(70 + (IF barcode.type \in {"QRCODE", "PDF417", "CODE128"} THEN 20 ELSE 0)
           + (IF Len(barcode.data) > 20 THEN 10 ELSE 0),
        100)

\* The images of the model are all of this shape (height, width)
ImageShape == [height |-> 4, width |-> 4]

\* math.sqrt((bx - cx)^2 + (by - cy)^2) with bx = left + width/2, cx = img_width/2:
\* the model keeps 4 * distance^2, an integer that orders and ties as the distance does
CalculateCenterDistance(shape, rect) ==
    LET dx == 2 * rect.left + rect.width - shape.width
        dy == 2 * rect.top + rect.height - shape.height
    IN  dx * dx + dy * dy

\* The dict decode_with_formats builds for one detection
BarcodeInfo(barcode) ==
    LET utf8 == Utf8Valid(barcode.data)
    IN  [ data            |-> IF utf8 THEN Utf8Decode(barcode.data)
                                      ELSE Latin1Decode(barcode.data),
          type            |-> barcode.type,
          format          |-> NormalizeBarcodeFormat(barcode.type),
          encoding        |-> IF utf8 THEN "utf-8" ELSE "iso-8859-1",
          raw_bytes       |-> barcode.data,
          bbox            |-> <<barcode.rect.left, barcode.rect.top,
                                barcode.rect.width, barcode.rect.height>>,
          area            |-> barcode.rect.width * barcode.rect.height,
          confidence      |-> CalculateConfidence(barcode),
          center_distance |-> CalculateCenterDistance(ImageShape, barcode.rect) ]

RECURSIVE DecodeWithFormats(_, _)
DecodeWithFormats(img, formats) ==
    IF img = <<>> THEN <<>>
    ELSE IF Head(img).type \in formats
         THEN <<BarcodeInfo(Head(img))>> \o DecodeWithFormats(Tail(img), formats)
         ELSE DecodeWithFormats(Tail(img), formats)

\* `token in method`, for a method name kept as its "_"-separated parts
HasToken(method, token) == \E i \in 1..Len(method) : method[i] = token

\* The page and method information _try_formats adds to a candidate
Tagged(info, page_num, method) ==
    [ data            |-> info.data,
      type            |-> info.type,
      format          |-> info.format,
      encoding        |-> info.encoding,
      raw_bytes       |-> info.raw_bytes,
      bbox            |-> info.bbox,
      area            |-> info.area,
      confidence      |-> info.confidence,
      center_distance |-> info.center_distance,
      page            |-> page_num,
      method          |-> method,
      source          |-> IF HasToken(method, "pymupdf") THEN "embedded-image"
                                                         ELSE "rasterized-page",
      dpi             |-> IF HasToken(method, "enhanced") THEN 300 ELSE 150 ]

(***************************************************************************)
(* BarcodeExtractor._choose_best_barcodes, _try_formats                    *)
(***************************************************************************)
\* The sort key (-confidence, -area, center_distance) of a is smaller than that of b
KeyBefore_NoCentrality(a, b) ==
    \/ a.confidence > b.confidence
    \/ (a.confidence = b.confidence /\ a.area > b.area)

KeyBefore(a, b) ==
    \/ a.confidence > b.confidence
    \/ (a.confidence = b.confidence /\ a.area > b.area)
    \/ (a.confidence = b.confidence /\ a.area = b.area
            /\ a.center_distance < b.center_distance)

ChooseBestBarcodes(list) ==
    IF list = <<>> THEN <<>>
    ELSE IF Len(list) = 1 THEN list
    ELSE LET sorted_barcodes ==
                 StableSort(list, [i \in 1..Len(list) |-> [j \in 1..Len(list) |->
                                     KeyBefore(list[i], list[j])]])
         IN  <<sorted_barcodes[1]>>

\* _try_formats from group k on: the candidates returned and the groups decoded
RECURSIVE TryFormatsFrom_NoStop(_, _, _, _, _)
TryFormatsFrom_NoStop(img, groups, k, page_num, method) ==
    IF k > Len(groups) THEN [selected |-> <<>>, calls |-> <<>>]
    ELSE LET found == DecodeWithFormats(img, groups[k])
             tagged == [i \in 1..Len(found) |-> Tagged(found[i], page_num, method)]
             rest == TryFormatsFrom_NoStop(img, groups, k + 1, page_num, method)
         IN  [selected |-> ChooseBestBarcodes(tagged) \o rest.selected,
              calls |-> <<k>> \o rest.calls]

RECURSIVE TryFormatsFrom(_, _, _, _, _)
TryFormatsFrom(img, groups, k, page_num, method) ==
    IF k > Len(groups) THEN [selected |-> <<>>, calls |-> <<>>]
    ELSE LET found == DecodeWithFormats(img, groups[k])
             tagged == [i \in 1..Len(found) |-> Tagged(found[i], page_num, method)]
         IN  IF found # <<>>
             THEN [selected |-> ChooseBestBarcodes(tagged), calls |-> <<k>>]
             ELSE LET rest == TryFormatsFrom(img, groups, k + 1, page_num, method)
                  IN  [selected |-> rest.selected, calls |-> <<k>> \o rest.calls]

TryFormats(img, groups, page_num, method) ==
    TryFormatsFrom(img, groups, 1, page_num, method)

\* _decode_barcodes: the candidates of one image
DecodeBarcodes(img, page_num, method) ==
    TryFormats(img, format_groups, page_num, method).selected

(***************************************************************************)
(* BarcodeExtractor._handle_mixed_aztec_qr                                 *)
(***************************************************************************)
aztec_hints ==
    << <<"a","z","t","e","c">>, <<"b","i","l","l","e","t">>,
       <<"t","i","c","k","e","t">>, <<"p","a","s","s">>, <<"c","o","d","e">> >>

HasAztecHint_CaseSensitive(name) ==
    \E h \in 1..Len(aztec_hints) : Contains(name, aztec_hints[h])

HasAztecHint(name) ==
    \E h \in 1..Len(aztec_hints) : Contains(Lower(name), aztec_hints[h])

\* max(codes, key=area): the first candidate of the largest area
MaxByArea(codes) ==
    codes[CHOOSE i \in 1..Len(codes) :
            /\ \A j \in 1..Len(codes) : codes[j].area <= codes[i].area
            /\ \A j \in 1..(i - 1) : codes[j].area < codes[i].area]

\* The area test that keeps Aztec
AztecWinsByArea_Strict(best_aztec, best_qr) == best_aztec.area > best_qr.area

AztecWinsByArea(best_aztec, best_qr) == best_aztec.area >= best_qr.area

HandleMixedAztecQr(all_barcodes, name) ==
    IF all_barcodes = <<>> THEN <<>>
    ELSE LET aztec_codes == SelectSeq(all_barcodes, LAMBDA bc : bc.type = "AZTEC")
             qr_codes == SelectSeq(all_barcodes, LAMBDA bc : bc.type = "QRCODE")
             others == SelectSeq(all_barcodes,
                                 LAMBDA bc : bc.type \notin {"AZTEC", "QRCODE"})
         IN  IF aztec_codes # <<>> /\ qr_codes # <<>>
             THEN IF HasAztecHint(name)
                  THEN aztec_codes \o others
                  ELSE IF AztecWinsByArea(MaxByArea(aztec_codes), MaxByArea(qr_codes))
                       THEN aztec_codes \o others
                       ELSE qr_codes \o others
             ELSE all_barcodes

(***************************************************************************)
(* BarcodeExtractor._deduplicate_barcodes                                  *)
(***************************************************************************)
\* The grouping key of a candidate: raw_bytes.hex()
PayloadKey_ByText(barcode) == barcode.data

PayloadKey(barcode) == Hex(barcode.raw_bytes)

\* The keys of `grouped`, in insertion order
RECURSIVE GroupKeys(_, _)
GroupKeys(list, seen) ==
    IF list = <<>> THEN <<>>
    ELSE LET k == PayloadKey(Head(list))
         IN  IF k \in seen THEN GroupKeys(Tail(list), seen)
             ELSE <<k>> \o GroupKeys(Tail(list), seen \cup {k})

\* list.sort(key=confidence, reverse=True): stable, equal confidences keep their order
SortByConfidence(list) ==
    StableSort(list, [i \in 1..Len(list) |-> [j \in 1..Len(list) |->
                        list[i].confidence > list[j].confidence]])

Consolidated(group) ==
    LET best == SortByConfidence(group)[1]
    IN  [ data            |-> best.data,
          type            |-> best.type,
          format          |-> best.format,
          encoding        |-> best.encoding,
          raw_bytes       |-> best.raw_bytes,
          bbox            |-> best.bbox,
          area            |-> best.area,
          confidence      |-> best.confidence,
          center_distance |-> best.center_distance,
          page            |-> best.page,
          method          |-> best.method,
          source          |-> best.source,
          dpi             |-> best.dpi,
          detection_count |-> Len(group),
          methods_used    |-> {group[i].method : i \in 1..Len(group)},
          pages_found     |-> {group[i].page : i \in 1..Len(group)} ]

DeduplicateBarcodes(list) ==
    IF list = <<>> THEN list
    ELSE LET keys == GroupKeys(list, {})
             Group(k) == SelectSeq(list, LAMBDA bc : PayloadKey(bc) = k)
         IN  SortByConfidence([i \in 1..Len(keys) |-> Consolidated(Group(keys[i]))])

(***************************************************************************)
(* BarcodeExtractor.extract_barcodes_from_pdf and its three strategies.    *)
(*                                                                         *)
(* A document is a sequence of pages, a page the list of symbols it shows. *)
(* A rendering of a page either lets pyzbar read the page's symbols or     *)
(* not; which renderings do is the nondeterminism of a request.            *)
(***************************************************************************)
\* pyzbar.decode of a rendering of page p
Rendered(d, p, readable) == IF readable THEN d[p] ELSE <<>>

\* _extract_with_pymupdf: pages p.. of the document, each decoded once
RECURSIVE PymupdfFrom(_, _, _)
PymupdfFrom(d, p, readable) ==
    IF p > Len(d) THEN <<>>
    ELSE DecodeBarcodes(Rendered(d, p, readable[p]), p, <<"standard">>)
            \o PymupdfFrom(d, p + 1, readable)

ExtractWithPymupdf(d, readable) == PymupdfFrom(d, 1, readable)

\* The renderings _preprocess_for_barcode_detection makes of a page, in dict order
processed_images == <<"grayscale", "otsu", "unsharp", "deskewed">>

\* One page of _extract_from_images at one resolution; `first` is the
\* rendering that first decodes ("none": no rendering does), local_barcodes
\* the list of _extract_from_images itself
PageFromImages(d, p, dpi, first, local_barcodes) ==
    IF local_barcodes = <<>>
    THEN IF first = "none" THEN <<>>
         ELSE DecodeBarcodes(Rendered(d, p, TRUE), p, <<"rasterized", dpi, first>>)
    ELSE DecodeBarcodes(Rendered(d, p, first # "none"), p, <<"rasterized", dpi>>)

RECURSIVE RungFrom(_, _, _, _, _)
RungFrom(d, p, dpi, first, local_barcodes) ==
    IF p > Len(d) THEN <<>>
    ELSE PageFromImages(d, p, dpi, first[p], local_barcodes)
            \o RungFrom(d, p + 1, dpi, first, local_barcodes)

\* One resolution of the ladder: nothing when the rasterization raised
Rung(d, dpi, outcome) ==
    IF outcome.raised THEN <<>> ELSE RungFrom(d, 1, dpi, outcome.first, <<>>)

\* _extract_from_images: 400 DPI, then 600 DPI if the list is still empty
ExtractFromImages(d, at400, at600) ==
    IF Rung(d, "400dpi", at400) # <<>> THEN Rung(d, "400dpi", at400)
    ELSE Rung(d, "600dpi", at600)

enhancement_methods ==
    <<"_enhance_contrast", "_enhance_sharpness", "_enhance_threshold",
      "_enhance_morphology", "_enhance_gaussian_blur">>

\* _extract_with_enhancement: every transform of every page is decoded
RECURSIVE EnhancedFrom(_, _, _, _)
EnhancedFrom(d, p, k, readable) ==
    IF p > Len(d) THEN <<>>
    ELSE IF k > Len(enhancement_methods) THEN EnhancedFrom(d, p + 1, 1, readable)
    ELSE DecodeBarcodes(Rendered(d, p, k \in readable[p]), p,
                        <<"enhanced", enhancement_methods[k]>>)
            \o EnhancedFrom(d, p, k + 1, readable)

ExtractWithEnhancement(d, raised, readable) ==
    IF raised THEN <<>> ELSE EnhancedFrom(d, 1, 1, readable)

\* Line 78: the enhancement strategy runs only on an empty list
ShouldEnhance_Always(list) == TRUE

ShouldEnhance(list) == list = <<>>

\* Lines 70-71: the rasterized candidates whose decoded text is new
NewBarcodes(image_barcodes, existing) ==
    LET existing_data == {existing[i].data : i \in 1..Len(existing)}
    IN  SelectSeq(image_barcodes, LAMBDA bc : bc.data \notin existing_data)

\* What the filter of lines 70-71 removes, with the payloads it duplicates
Discarded(image_barcodes, existing) ==
    { [ raw_bytes    |-> image_barcodes[i].raw_bytes,
        page         |-> image_barcodes[i].page,
        duplicate_of |-> { existing[j].raw_bytes :
                             j \in { k \in 1..Len(existing) :
                                       existing[k].data = image_barcodes[i].data } } ] :
        i \in { k \in 1..Len(image_barcodes) :
                  \E j \in 1..Len(existing) : existing[j].data = image_barcodes[k].data } }

\* The detections of a list of candidates
Detections(list) ==
    { [raw_bytes |-> list[i].raw_bytes, page |-> list[i].page, method |-> list[i].method] :
        i \in 1..Len(list) }

\* Lines 86-91: mixed Aztec/QR handling on a non-empty list
Preferred(list, name) ==
    IF list # <<>> THEN HandleMixedAztecQr(list, name) ELSE list

(***************************************************************************)
(* Inputs of the calls under test.                                         *)
(***************************************************************************)
Rect(l, t, w, h) == [left |-> l, top |-> t, width |-> w, height |-> h]

\* Two payloads with the same decoded text ("é": UTF-8 and ISO-8859-1)
PayloadUtf8 == <<195, 169>>
PayloadLatin1 == <<233>>

\* Candidates as they reach the deduplicator: decoded, then tagged by _try_formats
DedupMethods == { <<"standard">>, <<"rasterized", "400dpi">> }

DedupCandidates ==
    { Tagged(BarcodeInfo([type |-> t, data |-> d, rect |-> Rect(1, 1, 2, 2)]), p, m) :
        t \in {"QRCODE", "CODE39"}, d \in {PayloadUtf8, PayloadLatin1},
        p \in 1..MaxPages, m \in DedupMethods }

\* Nothing is being packaged
NotPackaging ==
    /\ identity = <<>>
    /\ pass_dir = <<>>
    /\ container = <<>>

NotGenerating ==
    /\ pass_info = <<>>
    /\ now = 0
    /\ issued = 0

\* No request in progress
NoRequest ==
    /\ doc = <<>>
    /\ ran = <<>>
    /\ detected = {}
    /\ discarded = {}
    /\ hits = 0
    /\ passes = <<>>
    /\ warnings = <<>>
    /\ NotPackaging
    /\ NotGenerating

Idle ==
    /\ filename = <<>>
    /\ image = <<>>
    /\ calls = <<>>
    /\ NoRequest

(***************************************************************************)
(* SpecDedup: _deduplicate_barcodes called on a list of candidates.        *)
(***************************************************************************)
InitDedup ==
    /\ Idle
    /\ pc = "call"
    /\ barcodes \in SeqsUpTo(DedupCandidates, MaxCands)
    /\ result = <<>>

Deduplicate ==
    /\ pc = "call"
    /\ result' = DeduplicateBarcodes(barcodes)
    /\ pc' = "deduplicated"
    /\ UNCHANGED <<filename, barcodes, callVars, pipeVars, passVars, pkgVars, genVars>>

SpecDedup == InitDedup /\ [][Deduplicate]_vars

CountWithPayload(list, raw) ==
    Cardinality({i \in 1..Len(list) : list[i].raw_bytes = raw})

\* C1: if exactly N >= 1 of the candidates given to _deduplicate_barcodes carry
\* the same raw payload bytes, whatever their method or page, the output holds
\* exactly one record for that payload and its detection_count is N.
C1_OneRecordPerPayload ==
    pc = "deduplicated" =>
        \A i \in 1..Len(barcodes) :
            LET raw == barcodes[i].raw_bytes
                recs == {k \in 1..Len(result) : result[k].raw_bytes = raw}
            IN  /\ Cardinality(recs) = 1
                /\ \A k \in recs :
                     result[k].detection_count = CountWithPayload(barcodes, raw)

\* C1's case: three candidates of one payload from different pages and methods,
\* deduplicated next to another payload with the same decoded text
C1_Witness ==
    /\ pc = "deduplicated"
    /\ Len(barcodes) = 3
    /\ CountWithPayload(barcodes, PayloadUtf8) = 2
    /\ CountWithPayload(barcodes, PayloadLatin1) = 1
    /\ \E i, j \in 1..3 : /\ barcodes[i].raw_bytes = PayloadUtf8
                          /\ barcodes[j].raw_bytes = PayloadUtf8
                          /\ barcodes[i].page # barcodes[j].page
                          /\ barcodes[i].method # barcodes[j].method
    /\ Len(result) = 2

(***************************************************************************)
(* SpecMixed: _handle_mixed_aztec_qr called on the candidates of a request.*)
(***************************************************************************)
NameDocument == <<"d","o","c",".","p","d","f">>
NameTicket == <<"t","i","c","k","e","t",".","p","d","f">>
NamePassUpper == <<"P","A","S","S",".","P","D","F">>

HintedNames == {NameTicket, NamePassUpper}
Filenames == {NameDocument} \cup HintedNames

MixedCandidates ==
    { Tagged(BarcodeInfo([type |-> t, data |-> PayloadUtf8, rect |-> r]),
             1, <<"standard">>) :
        t \in {"AZTEC", "QRCODE", "CODE128"},
        r \in {Rect(1, 1, 2, 2), Rect(1, 1, 3, 2)} }

InitMixed ==
    /\ NoRequest
    /\ image = <<>>
    /\ calls = <<>>
    /\ pc = "call"
    /\ filename \in Filenames
    /\ barcodes \in SeqsUpTo(MixedCandidates, MaxCands)
    /\ result = <<>>

HandleMixed ==
    /\ pc = "call"
    /\ result' = HandleMixedAztecQr(barcodes, filename)
    /\ pc' = "handled"
    /\ UNCHANGED <<filename, barcodes, callVars, pipeVars, passVars, pkgVars, genVars>>

SpecMixed == InitMixed /\ [][HandleMixed]_vars

Count(list, c) == Cardinality({i \in 1..Len(list) : list[i] = c})

HasType(list, t) == \E i \in 1..Len(list) : list[i].type = t

MaxArea(list, t) ==
    CHOOSE a \in {list[i].area : i \in {k \in 1..Len(list) : list[k].type = t}} :
        \A i \in 1..Len(list) : list[i].type = t => list[i].area <= a

\* Every candidate of type `dropped` is gone and every other candidate is kept
KeepsAllBut(dropped) ==
    \A c \in Range(barcodes) \cup Range(result) :
        Count(result, c) = IF c.type = dropped THEN 0 ELSE Count(barcodes, c)

\* C5: with Aztec and QR candidates both present and no context hint in the
\* file name, the symbology whose largest candidate has the strictly larger
\* area is kept and every candidate of the other one dropped; on an exact
\* tie Aztec is kept and QR dropped.
C5_LargerAreaWinsAztecOnTie ==
    (/\ pc = "handled"
     /\ filename = NameDocument
     /\ HasType(barcodes, "AZTEC")
     /\ HasType(barcodes, "QRCODE"))
    => IF MaxArea(barcodes, "QRCODE") > MaxArea(barcodes, "AZTEC")
       THEN KeepsAllBut("AZTEC")
       ELSE KeepsAllBut("QRCODE")

\* C5's case: an exact area tie between the largest Aztec and the largest QR
C5_Witness ==
    /\ pc = "handled"
    /\ filename = NameDocument
    /\ HasType(barcodes, "AZTEC")
    /\ HasType(barcodes, "QRCODE")
    /\ HasType(barcodes, "CODE128")
    /\ MaxArea(barcodes, "QRCODE") = MaxArea(barcodes, "AZTEC")
    /\ HasType(result, "AZTEC")
    /\ ~HasType(result, "QRCODE")

\* C6: with Aztec and QR both present and a ticket/pass hint in the file
\* name, all Aztec candidates and all candidates of other symbologies are
\* returned and no QR candidate, even when the QR has the larger area; with
\* only one of Aztec/QR present the list is returned unchanged.
C6_HintPrefersAztec ==
    pc = "handled" =>
        IF HasType(barcodes, "AZTEC") /\ HasType(barcodes, "QRCODE")
        THEN filename \in HintedNames => KeepsAllBut("QRCODE")
        ELSE result = barcodes

\* C6's case: a hinted (upper-case) file name and a QR larger than the Aztec
C6_Witness ==
    /\ pc = "handled"
    /\ filename = NamePassUpper
    /\ HasType(barcodes, "AZTEC")
    /\ HasType(barcodes, "QRCODE")
    /\ HasType(barcodes, "CODE128")
    /\ MaxArea(barcodes, "QRCODE") > MaxArea(barcodes, "AZTEC")
    /\ HasType(result, "AZTEC")
    /\ HasType(result, "CODE128")
    /\ ~HasType(result, "QRCODE")

(***************************************************************************)
(* SpecTry: _try_formats called on one image.                              *)
(***************************************************************************)
TryDetections ==
    { [type |-> t, data |-> PayloadUtf8, rect |-> r] :
        t \in {"AZTEC", "DATAMATRIX", "QRCODE", "CODE128"},
        r \in {Rect(1, 1, 2, 2), Rect(1, 1, 3, 2)} }

InitTry ==
    /\ NoRequest
    /\ filename = <<>>
    /\ barcodes = <<>>
    /\ pc = "call"
    /\ image \in SeqsUpTo(TryDetections, MaxCands)
    /\ calls = <<>>
    /\ result = <<>>

TryImage ==
    /\ pc = "call"
    /\ LET r == TryFormats(image, format_groups, 1, <<"test">>)
       IN  /\ result' = r.selected
           /\ calls' = r.calls
    /\ pc' = "tried"
    /\ UNCHANGED <<filename, barcodes, image, pipeVars, passVars, pkgVars, genVars>>

SpecTry == InitTry /\ [][TryImage]_vars

\* The groups of which the image holds a symbol
GroupsPresent == {k \in 1..Len(format_groups) :
                    \E i \in 1..Len(image) : image[i].type \in format_groups[k]}

\* C7: for one image _try_formats decodes the groups in their fixed order and
\* stops at the first group that yields a candidate: every returned candidate
\* belongs to that group and no later group is decoded.
C7_StopsAtFirstGroup ==
    pc = "tried" =>
        /\ calls = [k \in 1..Len(calls) |-> k]
        /\ IF GroupsPresent = {}
           THEN Len(calls) = Len(format_groups) /\ result = <<>>
           ELSE LET first == CHOOSE k \in GroupsPresent : \A j \in GroupsPresent : k <= j
                IN  /\ Len(calls) = first
                    /\ result # <<>>
                    /\ \A i \in 1..Len(result) : result[i].type \in format_groups[first]

\* C7's case: no Aztec, a QR and a linear code in the image: the decode of the
\* QR group is the last one and the linear code is never decoded
C7_Witness ==
    /\ pc = "tried"
    /\ GroupsPresent = {2, 3}
    /\ calls = <<1, 2>>
    /\ Len(result) = 1
    /\ result[1].type = "QRCODE"

\* C8: the ordered groups are four: {AZTEC}, then {DATAMATRIX}, then {QRCODE},
\* then the linear symbologies together; stated of the groups an image is
\* decoded with, in the order of the decodes.
C8_FourGroupsInOrder ==
    pc = "tried" =>
      /\ Len(format_groups) = 4
      /\ \A k \in 1..Len(calls) :
            CASE k = 1 -> format_groups[calls[k]] = {"AZTEC"}
              [] k = 2 -> format_groups[calls[k]] = {"DATAMATRIX"}
              [] k = 3 -> format_groups[calls[k]] = {"QRCODE"}
              [] OTHER -> "CODE128" \in format_groups[calls[k]]

(***************************************************************************)
(* SpecChoose: _choose_best_barcodes called on the candidates one group    *)
(* yields for one image.                                                   *)
(***************************************************************************)
ChooseCandidates ==
    { Tagged(BarcodeInfo([type |-> t, data |-> d, rect |-> r]), 1, <<"standard">>) :
        t \in {"CODE128", "CODE39"}, d \in {PayloadUtf8, PayloadLatin1},
        r \in {Rect(0, 1, 2, 2), Rect(2, 1, 2, 2), Rect(1, 1, 2, 2), Rect(1, 1, 3, 2)} }

InitChoose ==
    /\ Idle
    /\ pc = "call"
    /\ barcodes \in SeqsUpTo(ChooseCandidates, MaxCands)
    /\ result = <<>>

ChooseBest ==
    /\ pc = "call"
    /\ result' = ChooseBestBarcodes(barcodes)
    /\ pc' = "chosen"
    /\ UNCHANGED <<filename, barcodes, callVars, pipeVars, passVars, pkgVars, genVars>>

SpecChoose == InitChoose /\ [][ChooseBest]_vars

Orderings(n) == {p \in [1..n -> 1..n] : \A i, j \in 1..n : p[i] = p[j] => i = j}

Reordered(list, p) == [i \in 1..Len(list) |-> list[p[i]]]

\* The order of the claim: a is better than b by (highest confidence, largest
\* area, smallest distance from the image centre)
Better(a, b) ==
    \/ a.confidence > b.confidence
    \/ a.confidence = b.confidence /\ a.area > b.area
    \/ a.confidence = b.confidence /\ a.area = b.area
         /\ a.center_distance < b.center_distance

TiedOnAllKeys(a, b) == ~Better(a, b) /\ ~Better(b, a)

\* C9 as stated: of several candidates _choose_best_barcodes returns exactly
\* one, the winner by (highest confidence, largest area, smallest centre
\* distance), and the winner (its payload) does not depend on the order of the
\* candidates in the list, ties on all three keys included.
C9_WinnerIndependentOfOrder ==
    (pc = "chosen" /\ Len(barcodes) >= 2) =>
        /\ Len(result) = 1
        /\ \A i \in 1..Len(barcodes) : ~Better(barcodes[i], result[1])
        /\ \A p \in Orderings(Len(barcodes)) :
              ChooseBestBarcodes(Reordered(barcodes, p))[1].raw_bytes
                  = result[1].raw_bytes

\* What _choose_best_barcodes does guarantee: exactly one winner is returned
\* and no candidate is better than it; among the candidates tied with it on
\* all three keys it is the earliest of the list; and it does not depend on
\* the order of the list whenever every candidate tied with it on all three
\* keys is the same record.
C9_BestKeyEarliestOnTie ==
    (pc = "chosen" /\ Len(barcodes) >= 2) =>
        /\ Len(result) = 1
        /\ \E w \in 1..Len(barcodes) :
              /\ barcodes[w] = result[1]
              /\ \A i \in 1..Len(barcodes) : ~Better(barcodes[i], barcodes[w])
              /\ \A i \in 1..(w - 1) : Better(barcodes[w], barcodes[i])
        /\ (\A i \in 1..Len(barcodes) :
                TiedOnAllKeys(barcodes[i], result[1]) => barcodes[i] = result[1])
           => \A p \in Orderings(Len(barcodes)) :
                 ChooseBestBarcodes(Reordered(barcodes, p)) = result

\* Three candidates, the last one wins on centrality against an earlier one
\* of the same confidence and area
C9_Witness ==
    /\ pc = "chosen"
    /\ Len(barcodes) = 3
    /\ result = <<barcodes[3]>>
    /\ barcodes[1].confidence = barcodes[3].confidence
    /\ barcodes[1].area = barcodes[3].area
    /\ barcodes[1].center_distance > barcodes[3].center_distance
    /\ barcodes[2].confidence < barcodes[3].confidence

(***************************************************************************)
(* Spec: one request through extract_barcodes_from_pdf.                    *)
(***************************************************************************)
PayloadAscii == <<65>>

Symbols ==
    { [type |-> "QRCODE", data |-> PayloadUtf8, rect |-> Rect(1, 1, 2, 2)],
      [type |-> "QRCODE", data |-> PayloadLatin1, rect |-> Rect(1, 1, 2, 2)],
      [type |-> "AZTEC", data |-> PayloadAscii, rect |-> Rect(1, 1, 2, 1)] }

PageContents == {<<>>} \cup {<<s>> : s \in Symbols}

Documents == UNION {[1..n -> PageContents] : n \in 1..MaxPages}

Init ==
    /\ filename \in {NameDocument, NameTicket}
    /\ doc \in Documents
    /\ pc = "method1"
    /\ barcodes = <<>>
    /\ result = <<>>
    /\ image = <<>>
    /\ calls = <<>>
    /\ ran = <<>>
    /\ detected = {}
    /\ discarded = {}
    /\ hits = 0
    /\ passes = <<>>
    /\ warnings = <<>>
    /\ NotPackaging
    /\ NotGenerating

Pages == 1..Len(doc)

\* Method 1 (lines 58-64)
Method1 ==
    /\ pc = "method1"
    /\ \E raised \in BOOLEAN, readable \in [Pages -> BOOLEAN] :
         LET pymupdf_barcodes ==
                 IF raised THEN <<>> ELSE ExtractWithPymupdf(doc, readable)
         IN  /\ \A p \in Pages : readable[p] => ~raised /\ doc[p] # <<>>
             /\ hits + Len(pymupdf_barcodes) <= MaxDetections
             /\ hits' = hits + Len(pymupdf_barcodes)
             /\ barcodes' = barcodes \o pymupdf_barcodes
             /\ detected' = detected \cup Detections(pymupdf_barcodes)
             /\ ran' = Append(ran, [strategy |-> 1, step |-> "pymupdf",
                                    yielded |-> Len(pymupdf_barcodes)])
    /\ pc' = "method2"
    /\ UNCHANGED <<filename, doc, result, callVars, discarded, passVars, pkgVars, genVars>>

RungOutcomes ==
    { o \in [raised : BOOLEAN, first : [Pages -> Range(processed_images) \cup {"none"}]] :
        \A p \in Pages : o.first[p] # "none" => ~o.raised /\ doc[p] # <<>> }

NotRun == [raised |-> TRUE, first |-> [p \in Pages |-> "none"]]

\* Method 2 (lines 66-75)
Method2 ==
    /\ pc = "method2"
    /\ \E at400 \in RungOutcomes :
       \E at600 \in IF Rung(doc, "400dpi", at400) # <<>> THEN {NotRun} ELSE RungOutcomes :
         LET first_rung == Rung(doc, "400dpi", at400)
             image_barcodes == ExtractFromImages(doc, at400, at600)
             new_barcodes == NewBarcodes(image_barcodes, barcodes)
         IN  /\ hits + Len(image_barcodes) <= MaxDetections
             /\ hits' = hits + Len(image_barcodes)
             /\ barcodes' = barcodes \o new_barcodes
             /\ discarded' = discarded \cup Discarded(image_barcodes, barcodes)
             /\ detected' = detected \cup Detections(image_barcodes)
             /\ ran' = ran \o <<[strategy |-> 2, step |-> "images_400dpi",
                                 yielded |-> Len(first_rung)]>>
                          \o (IF first_rung # <<>> THEN <<>>
                              ELSE <<[strategy |-> 2, step |-> "images_600dpi",
                                      yielded |-> Len(image_barcodes)]>>)
             /\ pc' = IF ShouldEnhance(barcodes') THEN "method3" ELSE "finish"
    /\ UNCHANGED <<filename, doc, result, callVars, passVars, pkgVars, genVars>>

\* The transformed page images that can show a symbol
Decodable == {p \in Pages : doc[p] # <<>>} \X (1..Len(enhancement_methods))

\* Method 3 (lines 77-84)
Method3 ==
    /\ pc = "method3"
    /\ \E raised \in BOOLEAN :
       \E decoded \in IF raised THEN {{}} ELSE SubsetsUpTo(Decodable, MaxDetections - hits) :
         LET readable == [p \in Pages |->
                            {k \in 1..Len(enhancement_methods) : <<p, k>> \in decoded}]
             enhanced_barcodes == ExtractWithEnhancement(doc, raised, readable)
         IN  /\ hits + Len(enhanced_barcodes) <= MaxDetections
             /\ hits' = hits + Len(enhanced_barcodes)
             /\ barcodes' = barcodes \o enhanced_barcodes
             /\ detected' = detected \cup Detections(enhanced_barcodes)
             /\ ran' = Append(ran, [strategy |-> 3, step |-> "enhancement",
                                    yielded |-> Len(enhanced_barcodes),
                                    decoded |-> decoded])
    /\ pc' = "finish"
    /\ UNCHANGED <<filename, doc, result, callVars, discarded, passVars, pkgVars, genVars>>

\* Lines 86-91: mixed Aztec/QR handling, then deduplication
Finish ==
    /\ pc = "finish"
    /\ barcodes' = Preferred(barcodes, filename)
    /\ result' = DeduplicateBarcodes(barcodes')
    /\ pc' = "extracted"
    /\ UNCHANGED <<filename, callVars, pipeVars, passVars, pkgVars, genVars>>

Next == Method1 \/ Method2 \/ Method3 \/ Finish

Spec == Init /\ [][Next]_vars

RawPayloads(list) == {list[i].raw_bytes : i \in 1..Len(list)}

\* The position of an enhancement candidate's transform in enhancement_methods
TransformOf(barcode) ==
    CHOOSE k \in 1..Len(enhancement_methods) :
        barcode.method = <<"enhanced", enhancement_methods[k]>>

Enhanced == pc = "finish" /\ "enhancement" \in {ran[i].step : i \in 1..Len(ran)}

\* C22: the enhancement strategy leaves a page at the first
\* transform whose decode yields a candidate, so no page contributes
\* candidates from two different transforms.
C22_StopsAtFirstSuccessfulTransform ==
    Enhanced =>
        \A i, j \in 1..Len(barcodes) :
            barcodes[i].page = barcodes[j].page
                => barcodes[i].method = barcodes[j].method

\* What _extract_with_enhancement does instead: it applies every transform
\* to every page in the fixed order with a decode after each one: the
\* returned list holds one candidate for every transformed page image that
\* decodes, ordered by page and then by the transform's position, whatever
\* earlier transforms of the same page yielded.
C22_EveryTransformDecodedInOrder ==
    Enhanced =>
        LET decoded == ran[Len(ran)].decoded
        IN  /\ Len(barcodes) = Cardinality(decoded)
            /\ \A c \in decoded :
                  \E i \in 1..Len(barcodes) :
                      /\ barcodes[i].page = c[1]
                      /\ TransformOf(barcodes[i]) = c[2]
                      /\ barcodes[i].raw_bytes = doc[c[1]][1].data
            /\ \A i, j \in 1..Len(barcodes) :
                  i < j => \/ barcodes[i].page < barcodes[j].page
                           \/ /\ barcodes[i].page = barcodes[j].page
                              /\ TransformOf(barcodes[i]) < TransformOf(barcodes[j])

\* One page decoded under its first transform and again under a later one
C22_Witness ==
    /\ Enhanced
    /\ \E i, j \in 1..Len(barcodes) :
          /\ barcodes[i].page = barcodes[j].page
          /\ TransformOf(barcodes[i]) = 1
          /\ TransformOf(barcodes[j]) > 1

\* C3: two candidates are treated as the same barcode only if their raw
\* payload bytes are identical: a candidate the cross-strategy filter
\* discards duplicates only candidates with its own bytes, and the final
\* deduplication returns one record per distinct byte string it was given.
C3_SameOnlyIfIdenticalBytes ==
    /\ \A d \in discarded : \A b \in d.duplicate_of : b = d.raw_bytes
    /\ pc = "extracted" => Len(result) = Cardinality(RawPayloads(barcodes))

DetectionsOf(raw) == {d \in detected : d.raw_bytes = raw}

\* C4: every returned record carries all the pages on which its payload was
\* detected and all the methods that detected it, and counts a payload seen
\* once on each of two pages twice.
C4_PagesAndMethodsComplete ==
    pc = "extracted" =>
        \A i \in 1..Len(result) :
            /\ result[i].pages_found = {d.page : d \in DetectionsOf(result[i].raw_bytes)}
            /\ result[i].methods_used = {d.method : d \in DetectionsOf(result[i].raw_bytes)}
            /\ {d.page : d \in DetectionsOf(result[i].raw_bytes)} = {1, 2}
                   => result[i].detection_count >= 2

StepsRun == {ran[i].step : i \in 1..Len(ran)}

SortByPage(list) ==
    StableSort(list, [i \in 1..Len(list) |-> [j \in 1..Len(list) |->
                         list[i].page < list[j].page]])

single_pass_hints ==
    << <<"t","i","c","k","e","t">>, <<"p","a","s","s">>,
       <<"b","o","a","r","d","i","n","g">>, <<"a","d","m","i","s","s","i","o","n">>,
       <<"d","a","t","a","_","m","a","t","r","i","x">>,
       <<"d","a","t","a","m","a","t","r","i","x">> >>

datamatrix_hints ==
    << <<"d","a","t","a","_","m","a","t","r","i","x">>,
       <<"d","a","t","a","m","a","t","r","i","x">> >>

\* any(hint in filename.lower() for hint in hints)
HasHint(name, hints) == \E h \in 1..Len(hints) : Contains(Lower(name), hints[h])

\* max(text_barcodes, key=(len(data), confidence, -center_distance)): the
\* first candidate with the largest key
BestTextBarcode(list) ==
    LET Less(a, b) ==
            \/ Len(a.data) < Len(b.data)
            \/ Len(a.data) = Len(b.data) /\ a.confidence < b.confidence
            \/ /\ Len(a.data) = Len(b.data) /\ a.confidence = b.confidence
               /\ a.center_distance > b.center_distance
    IN  list[CHOOSE i \in 1..Len(list) :
                /\ \A j \in 1..Len(list) : ~Less(list[i], list[j])
                /\ \A j \in 1..(i - 1) : Less(list[j], list[i])]

\* Heuristics 1-3 on text-only candidates: "" when none applies
ConsolidationReason(text_barcodes, name) ==
    LET types == {text_barcodes[i].type : i \in 1..Len(text_barcodes)}
        unique_data == {text_barcodes[i].data : i \in 1..Len(text_barcodes)}
    IN  IF Cardinality(unique_data) < Len(text_barcodes) /\ Len(text_barcodes) <= 3
        THEN "duplicate_barcodes"
        ELSE IF types = {"DATAMATRIX"} /\ Len(text_barcodes) <= 3
        THEN (IF HasHint(name, single_pass_hints) THEN "single_pass_datamatrix" ELSE "")
        ELSE IF types = {"QRCODE"} /\ Len(text_barcodes) <= 3
        THEN (IF HasHint(name, datamatrix_hints) THEN "qr_likely_datamatrix" ELSE "")
        ELSE ""

\* The candidate heuristic 3 re-classifies as Data Matrix
Reclassified(bc) ==
    [reclassified |-> TRUE, original_type |-> "QRCODE"]
        @@ [bc EXCEPT !.type = "DATAMATRIX", !.format = "PKBarcodeFormatQR"]

\* A variant without strategy 1: the list is returned as it came
ConsolidateBarcodesForSinglePass_Unfiltered(list, name) == list

\* _consolidate_barcodes_for_single_pass: visual candidates are used as they
\* are; text-only candidates are reduced to the best one when a heuristic
\* applies
ConsolidateBarcodesForSinglePass(list, name) ==
    LET visual_barcodes == SelectSeq(list, LAMBDA bc : bc.source # "text-analysis")
        text_barcodes == SelectSeq(list, LAMBDA bc : bc.source = "text-analysis")
        reason == ConsolidationReason(text_barcodes, name)
        retyped == IF reason = "qr_likely_datamatrix"
                   THEN [i \in 1..Len(text_barcodes) |-> Reclassified(text_barcodes[i])]
                   ELSE text_barcodes
    IN  IF Len(list) <= 1 THEN list
        ELSE IF visual_barcodes # <<>> THEN visual_barcodes
        ELSE IF reason # ""
        THEN << [consolidated_from |-> Len(text_barcodes), consolidation_method |-> reason]
                    @@ BestTextBarcode(retyped) >>
        ELSE list

DataMatrixWarningV1 ==
    "This PDF contains a Data Matrix code, which is not supported by Apple Wallet. The pass has been saved without a barcode for future reference when support is added."

DataMatrixWarningV2 ==
    "This PDF contains a Data Matrix code, which is not supported by Apple Wallet. The pass has been saved without a barcode."

PassBase == [formatVersion |-> 1]

WithBarcode(format, message) ==
    LET entry == [format |-> format, message |-> message,
                  messageEncoding |-> "iso-8859-1"]
    IN  [formatVersion |-> 1, barcode |-> entry, barcodes |-> <<entry>>]

\* create_enhanced_pass, the barcode part, for a ticket with a primary barcode
EnhancedPassWith(primary_barcode) ==
    IF primary_barcode.type = "DATAMATRIX"
    THEN [pass_json |-> PassBase, warnings |-> <<DataMatrixWarningV1>>]
    ELSE [pass_json |-> WithBarcode(primary_barcode.format,
                                    Latin1Decode(primary_barcode.raw_bytes)),
          warnings  |-> <<>>]

\* pass_info.get('barcode_data') or pass_info.get('barcode_numbers') or
\* pass_info.get('confirmation_number')
FallbackBarcodeData(info) ==
    IF info.barcode_data # <<>> THEN info.barcode_data
    ELSE IF info.barcode_numbers # <<>> THEN info.barcode_numbers
    ELSE info.confirmation_number

\* A fallback that embeds a code for metadata text of any length
MeaningfulLength_Any(barcode_data) == TRUE

\* len(str(barcode_data)) > 5
MeaningfulLength(barcode_data) == Len(barcode_data) > 5

\* create_enhanced_pass for a ticket without one: a QR code of the
\* metadata's barcode text when that is longer than 5 characters
EnhancedPassWithout(barcode_data) ==
    IF barcode_data # <<>> /\ MeaningfulLength(barcode_data)
    THEN [pass_json |-> WithBarcode("PKBarcodeFormatQR", barcode_data), warnings |-> <<>>]
    ELSE [pass_json |-> PassBase, warnings |-> <<>>]

\* Step 4 of create_pass_from_pdf_data: one pass per ticket, the warnings
\* of every pass appended to all_warnings
RECURSIVE TicketsFrom(_, _)
TicketsFrom(consolidated, k) ==
    IF k > Len(consolidated) THEN [passes |-> <<>>, warnings |-> <<>>]
    ELSE LET made == EnhancedPassWith(consolidated[k])
             rest == TicketsFrom(consolidated, k + 1)
         IN  [passes   |-> <<made.pass_json>> \o rest.passes,
              warnings |-> made.warnings \o rest.warnings]

CreatePassFromPdfData(extracted, name, info) ==
    LET sorted == SortByPage(extracted)
    IN  IF sorted # <<>>
        THEN TicketsFrom(ConsolidateBarcodesForSinglePass(sorted, name), 1)
        ELSE LET made == EnhancedPassWithout(FallbackBarcodeData(info))
             IN  [passes |-> <<made.pass_json>>, warnings |-> made.warnings]

UNSUPPORTED_FORMATS == {"DATAMATRIX"}

BARCODE_FORMAT_MAP(source_type) ==
    CASE source_type = "QRCODE" -> "PKBarcodeFormatQR"
      [] source_type = "PDF417" -> "PKBarcodeFormatPDF417"
      [] source_type = "AZTEC" -> "PKBarcodeFormatAztec"
      [] source_type \in {"CODE128", "CODE39", "CODE93", "EAN13", "EAN8",
                          "UPC_A", "UPC_E", "CODABAR", "ITF"} -> "PKBarcodeFormatCode128"
      [] OTHER -> "PKBarcodeFormatQR"

\* barcode_pipeline.extract_barcodes, the loop over the sorted candidates
RECURSIVE ExtractFrom(_, _, _, _)
ExtractFrom(raw_barcodes, k, extracted, warned) ==
    IF k > Len(raw_barcodes) THEN [extracted |-> extracted, warnings |-> warned]
    ELSE LET bc == raw_barcodes[k]
             message == Latin1Decode(bc.raw_bytes)
         IN  IF bc.type \in UNSUPPORTED_FORMATS
             THEN ExtractFrom(raw_barcodes, k + 1, extracted,
                              IF DataMatrixWarningV2 \in Range(warned) THEN warned
                              ELSE Append(warned, DataMatrixWarningV2))
             ELSE IF message = <<>>
             THEN ExtractFrom(raw_barcodes, k + 1, extracted, warned)
             ELSE ExtractFrom(raw_barcodes, k + 1,
                              Append(extracted,
                                     [ pk_format        |-> BARCODE_FORMAT_MAP(bc.type),
                                       message          |-> message,
                                       message_encoding |-> "iso-8859-1",
                                       raw_bytes        |-> bc.raw_bytes,
                                       source_type      |-> bc.type,
                                       confidence       |-> bc.confidence ]),
                              warned)

ExtractBarcodes(raw_barcodes) == ExtractFrom(SortByPage(raw_barcodes), 1, <<>>, <<>>)

\* pass_builder.build_pass, the barcode part
BuildPass(ticket_barcodes) ==
    IF ticket_barcodes # <<>>
    THEN WithBarcode(ticket_barcodes[1].pk_format, ticket_barcodes[1].message)
    ELSE PassBase

VALID_BARCODE_FORMATS ==
    {"PKBarcodeFormatQR", "PKBarcodeFormatPDF417", "PKBarcodeFormatAztec",
     "PKBarcodeFormatCode128"}

\* pass_validator.validate_pass, the barcode checks
ValidatePass(pass_json) ==
    IF "barcode" \notin DOMAIN pass_json THEN <<>>
    ELSE (IF pass_json.barcode.format \notin VALID_BARCODE_FORMATS
          THEN <<"barcode.format is not a valid PKBarcodeFormat">> ELSE <<>>)
      \o (IF pass_json.barcode.message = <<>>
          THEN <<"barcode.message must not be empty">> ELSE <<>>)
      \o (IF pass_json.barcodes[1].format \notin VALID_BARCODE_FORMATS
          THEN <<"barcodes[0].format is not valid">> ELSE <<>>)
      \o (IF pass_json.barcodes[1].message = <<>>
          THEN <<"barcodes[0].message must not be empty">> ELSE <<>>)

\* all_warnings after the validation errors of one pass, each added once
RECURSIVE AddValidation(_, _, _)
AddValidation(all_warnings, errors, k) ==
    IF k > Len(errors) THEN all_warnings
    ELSE LET msg == "Validation: " \o errors[k]
         IN  AddValidation(IF msg \in Range(all_warnings) THEN all_warnings
                           ELSE Append(all_warnings, msg),
                           errors, k + 1)

Max(a, b) == IF a >= b THEN a ELSE b

\* Step 5 of create_passes_v2: passes i.. of total_tickets
RECURSIVE PassesV2From(_, _, _, _)
PassesV2From(extracted, i, total_tickets, all_warnings) ==
    IF i > total_tickets THEN [passes |-> <<>>, warnings |-> all_warnings]
    ELSE LET ticket_barcodes == IF i <= Len(extracted) THEN <<extracted[i]>> ELSE <<>>
             pass_json == BuildPass(ticket_barcodes)
             rest == PassesV2From(extracted, i + 1, total_tickets,
                                  AddValidation(all_warnings, ValidatePass(pass_json), 1))
         IN  [passes |-> <<pass_json>> \o rest.passes, warnings |-> rest.warnings]

CreatePassesV2(raw_barcodes) ==
    LET found == ExtractBarcodes(raw_barcodes)
    IN  PassesV2From(found.extracted, 1, Max(1, Len(found.extracted)), found.warnings)

(***************************************************************************)
(* SpecPass: an upload whose barcodes have been extracted, through either  *)
(* pipeline.                                                               *)
(***************************************************************************)
PayloadD == <<68>>
PayloadM == <<77>>
PayloadQ == <<81>>

\* Candidates of the extractor: Data Matrix and QR symbols on the pages
PassCandidates ==
    { Tagged(BarcodeInfo([type |-> s[1], data |-> s[2], rect |-> Rect(1, 1, 2, 2)]),
             p, <<"standard">>) :
        s \in {<<"DATAMATRIX", PayloadD>>, <<"DATAMATRIX", PayloadM>>, <<"QRCODE", PayloadQ>>},
        p \in 1..MaxPages }

\* Barcode text of the metadata: 'barcode_data' none or six characters,
\* 'barcode_numbers' none or five digits, 'confirmation_number' none or a
\* six-character code
PassInfos ==
    [ barcode_data        : { <<>>, <<65, 66, 67, 49, 50, 51>> },
      barcode_numbers     : { <<>>, <<49, 50, 51, 52, 53>> },
      confirmation_number : { <<>>, <<88, 89, 90, 55, 56, 57>> } ]

InitPass ==
    /\ filename \in {NameDocument, NameTicket}
    /\ image = <<>>
    /\ calls = <<>>
    /\ doc = <<>>
    /\ ran = <<>>
    /\ detected = {}
    /\ discarded = {}
    /\ hits = 0
    /\ passes = <<>>
    /\ warnings = <<>>
    /\ NotPackaging
    /\ pass_info \in PassInfos
    /\ now = 0
    /\ issued = 0
    /\ pc = "upload"
    /\ barcodes = <<>>
    /\ result \in {DeduplicateBarcodes(list) : list \in SeqsUpTo(PassCandidates, MaxCands)}

\* POST /upload: create_pass_from_pdf_data
GenerateV1 ==
    /\ pc = "upload"
    /\ LET made == CreatePassFromPdfData(result, filename, pass_info)
       IN  /\ passes' = made.passes
           /\ warnings' = made.warnings
    /\ pc' = "generated_v1"
    /\ UNCHANGED <<filename, barcodes, result, callVars, pipeVars, pkgVars, genVars>>

\* POST /upload/v2: create_passes_v2
GenerateV2 ==
    /\ pc = "upload"
    /\ LET made == CreatePassesV2(result)
       IN  /\ passes' = made.passes
           /\ warnings' = made.warnings
    /\ pc' = "generated_v2"
    /\ UNCHANGED <<filename, barcodes, result, callVars, pipeVars, pkgVars, genVars>>

NextPass == GenerateV1 \/ GenerateV2

SpecPass == InitPass /\ [][NextPass]_vars

DataMatrixPayloads ==
    { Latin1Decode(result[i].raw_bytes) :
        i \in { k \in 1..Len(result) : result[k].type = "DATAMATRIX" } }

Embedded(pass_json) ==
    IF "barcode" \in DOMAIN pass_json
    THEN {pass_json.barcode.message} \cup {pass_json.barcodes[k].message :
                                            k \in 1..Len(pass_json.barcodes)}
    ELSE {}

DataMatrixWarnings ==
    { k \in 1..Len(warnings) : warnings[k] \in {DataMatrixWarningV1, DataMatrixWarningV2} }

\* C2: no pass embeds the payload of a DATAMATRIX candidate, and a document
\* with DATAMATRIX candidates gets exactly one warning that mentions Data
\* Matrix, however many such candidates and tickets there are.
C2_NeverEmbeddedOneWarning ==
    pc \in {"generated_v1", "generated_v2"} =>
        /\ \A k \in 1..Len(passes) : Embedded(passes[k]) \cap DataMatrixPayloads = {}
        /\ DataMatrixPayloads # {} => Cardinality(DataMatrixWarnings) = 1

Generated == pc \in {"generated_v1", "generated_v2"}

HasBarcodeField(pass_json) ==
    "barcode" \in DOMAIN pass_json \/ "barcodes" \in DOMAIN pass_json

\* C16 as stated: with no candidate from any strategy exactly one pass is
\* built and its pass.json has neither a barcode nor a barcodes field.
C16_NoCandidateNoBarcodeField ==
    (Generated /\ result = <<>>) =>
        /\ Len(passes) = 1
        /\ ~HasBarcodeField(passes[1])

\* C16: with no candidate from any strategy exactly one pass is built.  Built
\* by create_passes_v2 it has neither a barcode nor a barcodes field; built
\* by create_pass_from_pdf_data it has neither unless the first non-empty of
\* the metadata's barcode_data, barcode_numbers and confirmation_number is
\* longer than 5 characters, and then both fields hold a QR code of that text.
C16_NoCandidateOnePassMetadataFallbackOnly ==
    (Generated /\ result = <<>>) =>
        /\ Len(passes) = 1
        /\ IF pc = "generated_v1" /\ Len(FallbackBarcodeData(pass_info)) > 5
           THEN /\ passes[1].barcode =
                      [ format |-> "PKBarcodeFormatQR",
                        message |-> FallbackBarcodeData(pass_info),
                        messageEncoding |-> "iso-8859-1" ]
                /\ passes[1].barcodes = <<passes[1].barcode>>
           ELSE ~HasBarcodeField(passes[1])

\* No candidate and only a confirmation number in the metadata: the one
\* pass of v1 carries it as a QR code
C16_Witness ==
    /\ pc = "generated_v1"
    /\ result = <<>>
    /\ pass_info.barcode_data = <<>>
    /\ pass_info.barcode_numbers = <<>>
    /\ Len(passes) = 1
    /\ HasBarcodeField(passes[1])
    /\ passes[1].barcode.message = pass_info.confirmation_number

\* C17: two distinct Data Matrix candidates and a file name with a
\* single-ticket hint give exactly one pass, without a barcode, and exactly
\* one warning.
C17_TwoDataMatrixHintedOnePassOneWarning ==
    ( /\ Generated
      /\ Len(result) = 2
      /\ result[1].type = "DATAMATRIX"
      /\ result[2].type = "DATAMATRIX"
      /\ result[1].raw_bytes # result[2].raw_bytes
      /\ HasHint(filename, single_pass_hints) ) =>
        /\ Len(passes) = 1
        /\ ~HasBarcodeField(passes[1])
        /\ Len(warnings) = 1

(***************************************************************************)
(* pass_validator.validate_pass on a PassJSON.                             *)
(*                                                                         *)
(* An optional value is a sequence of at most one element.  A colour       *)
(* string is given by how _RGB_PATTERN parses it: [kind |-> "rgb", r, g,   *)
(* b] with three numbers of one to three digits, or [kind |-> "text"].     *)
(* Dates are sequences of one-character strings.                           *)
(***************************************************************************)
None == <<>>

Some(v) == <<v>>

Digits == {"0", "1", "2", "3", "4", "5", "6", "7", "8", "9"}

\* s[from..to] exists and is all digits
AllDigits(s, from, to) == to <= Len(s) /\ \A i \in from..to : s[i] \in Digits

\* s without its first n characters
Drop(s, n) == SubSeq(s, n + 1, Len(s))

\* The number of leading digits of s
RECURSIVE LeadingDigits(_)
LeadingDigits(s) ==
    IF s # <<>> /\ s[1] \in Digits THEN 1 + LeadingDigits(Drop(s, 1)) ELSE 0

\* (Z|[+-]\d{2}:\d{2})? $
ZoneAndEnd(r) ==
    \/ r = <<>>
    \/ r = <<"Z">>
    \/ Len(r) = 6 /\ r[1] \in {"+", "-"} /\ AllDigits(r, 2, 3) /\ r[4] = ":"
         /\ AllDigits(r, 5, 6)

\* (:\d{2})?(\.\d+)?(Z|[+-]\d{2}:\d{2})? $
SecondsFractionZone(r) ==
    LET afterSeconds ==
            IF Len(r) >= 3 /\ r[1] = ":" /\ AllDigits(r, 2, 3) THEN Drop(r, 3) ELSE r
        afterFraction ==
            IF Len(afterSeconds) >= 2 /\ afterSeconds[1] = "."
                 /\ afterSeconds[2] \in Digits
            THEN Drop(afterSeconds, 1 + LeadingDigits(Drop(afterSeconds, 1)))
            ELSE afterSeconds
    IN  ZoneAndEnd(afterFraction)

\* _valid_iso8601: _ISO8601_PATTERN.match(value); $ also matches before a
\* final newline
ValidIso8601(value) ==
    LET s == IF value # <<>> /\ value[Len(value)] = "\n"
             THEN SubSeq(value, 1, Len(value) - 1) ELSE value
    IN  /\ Len(s) >= 10
        /\ AllDigits(s, 1, 4) /\ s[5] = "-" /\ AllDigits(s, 6, 7) /\ s[8] = "-"
        /\ AllDigits(s, 9, 10)
        /\ \/ Len(s) = 10
           \/ /\ Len(s) >= 16
              /\ s[11] = "T" /\ AllDigits(s, 12, 13) /\ s[14] = ":"
              /\ AllDigits(s, 15, 16)
              /\ SecondsFractionZone(Drop(s, 16))

\* _valid_rgb
ValidRgb(value) ==
    value.kind = "rgb" /\ value.r <= 255 /\ value.g <= 255 /\ value.b <= 255

StyleNames == {"eventTicket", "generic", "boardingPass", "coupon", "storeCard"}

valid_transit ==
    {"PKTransitTypeAir", "PKTransitTypeBoat", "PKTransitTypeBus",
     "PKTransitTypeGeneric", "PKTransitTypeTrain"}

\* Lines 30-38
RequiredErrors(pass_json) ==
       (IF Len(pass_json.passTypeIdentifier) = 0 THEN <<"passTypeIdentifier is required">> ELSE <<>>)
    \o (IF Len(pass_json.serialNumber) = 0 THEN <<"serialNumber is required">> ELSE <<>>)
    \o (IF Len(pass_json.teamIdentifier) = 0 THEN <<"teamIdentifier is required">> ELSE <<>>)
    \o (IF Len(pass_json.organizationName) = 0 THEN <<"organizationName is required">> ELSE <<>>)
    \o (IF Len(pass_json.description) = 0 THEN <<"description is required">> ELSE <<>>)
    \o (IF pass_json.formatVersion # 1 THEN <<"formatVersion must be 1">> ELSE <<>>)

\* Lines 48-52, with the condition len(set_styles) > 1 in place of != 1
StyleErrors_OnlyMany(set_styles) ==
    IF Cardinality(set_styles) > 1
    THEN <<"Exactly one pass style must be set">> ELSE <<>>

\* Lines 48-52
StyleErrors(set_styles) ==
    IF Cardinality(set_styles) # 1
    THEN <<"Exactly one pass style must be set">> ELSE <<>>

\* Lines 55-60
TransitErrors(pass_json) ==
    IF "boardingPass" \notin DOMAIN pass_json.styles THEN <<>>
    ELSE IF pass_json.styles["boardingPass"].transitType = ""
    THEN <<"boardingPass requires transitType">>
    ELSE IF pass_json.styles["boardingPass"].transitType \notin valid_transit
    THEN <<"boardingPass.transitType is not valid">>
    ELSE <<>>

\* Lines 63-66
ColorError(value, color_field) ==
    IF value # None /\ ~ValidRgb(value[1]) THEN <<color_field>> ELSE <<>>

ColorErrors(pass_json) ==
       ColorError(pass_json.foregroundColor, "foregroundColor is not a valid rgb(r,g,b) string")
    \o ColorError(pass_json.backgroundColor, "backgroundColor is not a valid rgb(r,g,b) string")
    \o ColorError(pass_json.labelColor, "labelColor is not a valid rgb(r,g,b) string")

\* _check_unique_keys: is some key of the array repeated
HasDuplicateKey(fields) ==
    \E i, j \in 1..Len(fields) : i < j /\ fields[i] = fields[j]

\* Lines 83-90
KeyErrors(pass_json) ==
    IF \E style \in DOMAIN pass_json.styles :
          \/ HasDuplicateKey(pass_json.styles[style].headerFields)
          \/ HasDuplicateKey(pass_json.styles[style].primaryFields)
          \/ HasDuplicateKey(pass_json.styles[style].secondaryFields)
          \/ HasDuplicateKey(pass_json.styles[style].auxiliaryFields)
          \/ HasDuplicateKey(pass_json.styles[style].backFields)
    THEN <<"duplicate key">> ELSE <<>>

\* Lines 93-96
DateError(value, date_field) ==
    IF value # None /\ ~ValidIso8601(value[1]) THEN <<date_field>> ELSE <<>>

DateErrors(pass_json) ==
       DateError(pass_json.expirationDate, "expirationDate is not a valid ISO 8601 date string")
    \o DateError(pass_json.relevantDate, "relevantDate is not a valid ISO 8601 date string")

\* validate_pass: (is_valid, errors)
validate_pass(pass_json) ==
    LET errors == RequiredErrors(pass_json)
                    \o StyleErrors(DOMAIN pass_json.styles)
                    \o TransitErrors(pass_json)
                    \o ColorErrors(pass_json)
                    \o ValidatePass(pass_json)
                    \o KeyErrors(pass_json)
                    \o DateErrors(pass_json)
    IN  [is_valid |-> errors = <<>>, errors |-> errors]

(***************************************************************************)
(* SpecValidate: validate_pass called on a PassJSON.                       *)
(***************************************************************************)
RequiredStrings ==
    {"passTypeIdentifier", "serialNumber", "teamIdentifier", "organizationName",
     "description"}

\* The field keys of a style section, and its transitType ("" when unset)
Structures ==
    { [ headerFields    |-> <<"header">>,
        primaryFields   |-> <<"title">>,
        secondaryFields |-> keys,
        auxiliaryFields |-> <<>>,
        backFields      |-> <<>>,
        transitType     |-> transit ] :
        keys \in {<<"date", "venue">>, <<"date", "date">>},
        transit \in {"", "PKTransitTypeAir", "PKTransitTypeHover"} }

Black == [kind |-> "rgb", r |-> 0, g |-> 0, b |-> 0]
White == [kind |-> "rgb", r |-> 255, g |-> 255, b |-> 255]

\* foregroundColor, backgroundColor, labelColor
Colorings ==
    { <<None, None, None>>,
      <<Some(White), Some(Black), Some(White)>>,
      <<Some([kind |-> "rgb", r |-> 256, g |-> 0, b |-> 0]), Some(Black), Some(White)>>,
      <<Some(White), Some([kind |-> "text"]), None>>,
      <<None, None, Some([kind |-> "rgb", r |-> 0, g |-> 0, b |-> 999])>> }

DateDay == <<"2", "0", "2", "5", "-", "0", "6", "-", "1", "5">>
DateTimeZone ==
    DateDay \o <<"T", "0", "3", ":", "0", "0", ":", "0", "0", "+", "0", "2", ":", "0", "0">>
DateSlashes == <<"1", "5", "/", "0", "6", "/", "2", "0", "2", "5">>

ExpirationDates == {None, Some(DateDay), Some(DateTimeZone), Some(DateSlashes)}

\* The barcode keys of a pass.json: absent, or barcode and barcodes
BarcodeKeys ==
    { <<>>,
      [barcode |-> [format |-> "PKBarcodeFormatQR", message |-> <<81>>,
                    messageEncoding |-> "iso-8859-1"],
       barcodes |-> << [format |-> "PKBarcodeFormatQR", message |-> <<81>>,
                        messageEncoding |-> "iso-8859-1"] >>],
      [barcode |-> [format |-> "PKBarcodeFormatQR", message |-> <<>>,
                    messageEncoding |-> "iso-8859-1"],
       barcodes |-> << [format |-> "PKBarcodeFormatQR", message |-> <<>>,
                        messageEncoding |-> "iso-8859-1"] >>],
      [barcode |-> [format |-> "PKBarcodeFormatDataMatrix", message |-> <<68>>,
                    messageEncoding |-> "iso-8859-1"],
       barcodes |-> << [format |-> "PKBarcodeFormatDataMatrix", message |-> <<68>>,
                        messageEncoding |-> "iso-8859-1"] >>] }

PassJSONs ==
    { [ formatVersion      |-> version,
        passTypeIdentifier |-> IF "passTypeIdentifier" \in missing THEN "" ELSE "pass.com.add2wallet",
        serialNumber       |-> IF "serialNumber" \in missing THEN "" ELSE "serial",
        teamIdentifier     |-> IF "teamIdentifier" \in missing THEN "" ELSE "TEAM",
        organizationName   |-> IF "organizationName" \in missing THEN "" ELSE "Add2Wallet",
        description        |-> IF "description" \in missing THEN "" ELSE "Event ticket",
        styles             |-> [style \in set_styles |-> structure],
        foregroundColor    |-> colors[1],
        backgroundColor    |-> colors[2],
        labelColor         |-> colors[3],
        expirationDate     |-> expiration,
        relevantDate       |-> None ] @@ barcode_keys :
        version \in {1, 2},
        missing \in {m \in SUBSET RequiredStrings : Cardinality(m) <= MaxMissing},
        set_styles \in {st \in SUBSET StyleNames : Cardinality(st) <= MaxStyles},
        structure \in Structures,
        colors \in Colorings,
        expiration \in ExpirationDates,
        barcode_keys \in BarcodeKeys }

InitValidate ==
    /\ filename = <<>>
    /\ image = <<>>
    /\ calls = <<>>
    /\ doc = <<>>
    /\ ran = <<>>
    /\ detected = {}
    /\ discarded = {}
    /\ hits = 0
    /\ warnings = <<>>
    /\ NotPackaging
    /\ NotGenerating
    /\ barcodes = <<>>
    /\ result = <<>>
    /\ pc = "validate"
    /\ \E pass_json \in PassJSONs : passes = <<pass_json>>

Validate ==
    /\ pc = "validate"
    /\ result' = validate_pass(passes[1])
    /\ pc' = "validated"
    /\ UNCHANGED <<filename, barcodes, callVars, pipeVars, passVars, pkgVars, genVars>>

SpecValidate == InitValidate /\ [][Validate]_vars

set_styles == DOMAIN passes[1].styles

RequiredPresent ==
    /\ passes[1].passTypeIdentifier # ""
    /\ passes[1].serialNumber # ""
    /\ passes[1].teamIdentifier # ""
    /\ passes[1].organizationName # ""
    /\ passes[1].description # ""

\* C11 as stated: a PassDefinition with more than one style section fails
\* validation, and one with exactly one style section and all required
\* top-level fields present passes.
C11_OneStyleAndRequiredPasses ==
    pc = "validated" =>
        /\ Cardinality(set_styles) > 1 => ~result.is_valid
        /\ (Cardinality(set_styles) = 1 /\ RequiredPresent) => result.is_valid

OptionalOk(value, ok) == value = None \/ value[1] \in ok

\* The other conditions validate_pass checks, written on the input
OtherwiseWellFormed ==
    /\ passes[1].formatVersion = 1
    /\ "boardingPass" \in set_styles =>
          passes[1].styles["boardingPass"].transitType \in valid_transit
    /\ \A c \in {passes[1].foregroundColor, passes[1].backgroundColor, passes[1].labelColor} :
          OptionalOk(c, {Black, White})
    /\ "barcode" \in DOMAIN passes[1] =>
          /\ passes[1].barcode.format \in VALID_BARCODE_FORMATS
          /\ Len(passes[1].barcode.message) > 0
    /\ \A style \in set_styles : passes[1].styles[style].secondaryFields = <<"date", "venue">>
    /\ OptionalOk(passes[1].expirationDate, {DateDay, DateTimeZone})

\* C11: a PassDefinition whose number of populated style sections is not one
\* fails validation; one with exactly one style section, all required
\* top-level fields non-empty, formatVersion 1, a valid transitType if it is
\* a boardingPass, valid colours, valid non-empty barcodes, unique field keys
\* and ISO 8601 dates passes; and nothing else passes.
C11_ValidIffOneStyleAndWellFormed ==
    pc = "validated" =>
        /\ Cardinality(set_styles) # 1 => ~result.is_valid
        /\ result.is_valid <=>
              (Cardinality(set_styles) = 1 /\ RequiredPresent /\ OtherwiseWellFormed)

\* A boarding pass with a barcode and an expiration date, everything in
\* order: accepted
C11_Witness ==
    /\ pc = "validated"
    /\ set_styles = {"boardingPass"}
    /\ "barcode" \in DOMAIN passes[1]
    /\ passes[1].expirationDate = Some(DateTimeZone)
    /\ RequiredPresent
    /\ OtherwiseWellFormed
    /\ result.is_valid

(***************************************************************************)
(* Packaging: manifest, signature and zip of a pass directory, in          *)
(* PassGenerator.create_enhanced_pass (v1) and PassSigner.package_pass     *)
(* (v2).  A directory and a container map file names to contents.  SHA-1   *)
(* is modelled by a 16-bit polynomial checksum of the bytes.  The content  *)
(* of manifest.json is the manifest itself, its entries in the order       *)
(* json.dump writes them (the insertion order of the dict).                *)
(***************************************************************************)
\* hashlib.sha1 stands as a 16-bit polynomial checksum of the bytes
RECURSIVE Sha1From(_, _)
Sha1From(bytes, h) ==
    IF bytes = <<>> THEN h
    ELSE Sha1From(Drop(bytes, 1), (h * 31 + bytes[1] + 1) % 65521)

\* hashlib.sha1(...).hexdigest()
Sha1(bytes) == Sha1From(bytes, 7)

\* dir with content written to name
WriteFile(dir, name, content) ==
    [n \in DOMAIN dir \cup {name} |-> IF n = name THEN content ELSE dir[n]]

\* filename.startswith('.')
StartsWithDot(name) == name \in {".", "..", ".DS_Store"}

\* The bundle file names in the order of sorted()
SortedNames ==
    <<"icon.png", "icon@2x.png", "icon@3x.png", "logo.png", "manifest.json",
      "pass.json", "signature", "thumbnail.png">>

\* sorted(os.listdir(pass_dir))
SortedListing(dir) == SelectSeq(SortedNames, LAMBDA n : n \in DOMAIN dir)

\* The orders os.listdir can return the names of dir in
Listings(dir) ==
    { l \in [1..Cardinality(DOMAIN dir) -> DOMAIN dir] :
        \A i, j \in 1..Cardinality(DOMAIN dir) : l[i] = l[j] => i = j }

\* The files the manifest loop skips, pass.json among them
Skipped_PassJson(name) == StartsWithDot(name) \/ name \in {"manifest.json", "pass.json"}

\* The files the manifest loop skips
Skipped(name) == StartsWithDot(name) \/ name = "manifest.json"

\* A manifest entry that hashes no content
ManifestEntry_Empty(dir, name) == [name |-> name, sha1 |-> Sha1(<<>>)]

ManifestEntry(dir, name) == [name |-> name, sha1 |-> Sha1(dir[name])]

\* The manifest of the files of dir, taken in the order of listing
RECURSIVE ManifestFrom(_, _, _)
ManifestFrom(dir, listing, k) ==
    IF k > Len(listing) THEN <<>>
    ELSE (IF Skipped(listing[k]) THEN <<>> ELSE <<ManifestEntry(dir, listing[k])>>)
            \o ManifestFrom(dir, listing, k + 1)

\* PassGenerator._create_manifest: in os.listdir order
CreateManifestV1(dir, listing) == ManifestFrom(dir, listing, 1)

\* PassSigner.create_manifest: in sorted order
CreateManifestV2(dir) == ManifestFrom(dir, SortedListing(dir), 1)

EnvNames == {"PASS_CERT_PEM", "PASS_KEY_PEM", "WWDR_CERT_PEM"}

CertFiles == {"pass.pem", "key.pem", "wwdrg4.pem", "wwdr.pem"}

\* _check_certificates_available (both pipelines)
CheckCertificatesAvailable(ident) ==
    \/ EnvNames \subseteq ident.env
    \/ /\ {"pass.pem", "key.pem"} \subseteq ident.files
       /\ "wwdrg4.pem" \in ident.files \/ "wwdr.pem" \in ident.files

\* _load_all_certs and the signing itself return without raising
SigningSucceeds(ident) ==
    /\ ident.wellformed
    /\ IF "PASS_CERT_PEM" \in ident.env
       THEN EnvNames \subseteq ident.env
       ELSE /\ {"pass.pem", "key.pem"} \subseteq ident.files
            /\ "wwdrg4.pem" \in ident.files \/ "wwdr.pem" \in ident.files

\* sign_manifest / _sign_manifest_file: the detached signature of the
\* manifest bytes, b"" when signing is disabled or raises
SignManifest(ident, manifest_data) ==
    IF ~CheckCertificatesAvailable(ident) THEN <<>>
    ELSE IF SigningSucceeds(ident) THEN <<"cms", manifest_data>>
    ELSE <<>>

\* build_pkpass / _create_pkpass_zip: every regular file not starting with '.'
BuildPkpass(dir) == [n \in {m \in DOMAIN dir : ~StartsWithDot(m)} |-> dir[n]]

\* The directory when it is zipped, v1 (create_enhanced_pass, lines 693-711)
SignedDirV1(dir, listing, ident) ==
    LET with_manifest == WriteFile(dir, "manifest.json", CreateManifestV1(dir, listing))
    IN  IF CheckCertificatesAvailable(ident)
        THEN WriteFile(with_manifest, "signature",
                       SignManifest(ident, with_manifest["manifest.json"]))
        ELSE with_manifest

\* The directory when it is zipped, v2 (package_pass)
SignedDirV2(dir, ident) ==
    LET with_manifest == WriteFile(dir, "manifest.json", CreateManifestV2(dir))
        sig == SignManifest(ident, with_manifest["manifest.json"])
    IN  IF CheckCertificatesAvailable(ident) /\ sig # <<>>
        THEN WriteFile(with_manifest, "signature", sig)
        ELSE with_manifest

(***************************************************************************)
(* SpecPackage: one pass.json packaged by either pipeline, under every     *)
(* signing identity of the deployment.                                     *)
(***************************************************************************)
Identities == [env : SUBSET EnvNames, files : SUBSET CertFiles, wellformed : BOOLEAN]

PassJsonBytes == { <<123, 49, 125>>, <<123, 50, 125>> }

PngDynamic == <<137, 80, 78, 71, 1>>
PngStatic == <<137, 80, 78, 71, 2>>
PngThumbnail == <<137, 80, 78, 71, 3>>

\* What the asset step leaves in the directory: the generated icons with or
\* without a thumbnail, the static icons, or no icon at all
AssetOutcomes ==
    { [n \in {"icon.png", "icon@2x.png", "icon@3x.png", "thumbnail.png"} |->
          IF n = "thumbnail.png" THEN PngThumbnail ELSE PngDynamic],
      [n \in {"icon.png", "icon@2x.png", "icon@3x.png"} |-> PngDynamic],
      [n \in {"icon.png", "icon@2x.png", "icon@3x.png"} |-> PngStatic],
      [n \in {"icon.png"} |-> PngStatic],
      <<>> }

\* The directory after the asset step
WithAssets(dir, assets) ==
    [n \in DOMAIN dir \cup DOMAIN assets |-> IF n \in DOMAIN assets THEN assets[n] ELSE dir[n]]

InitPackage ==
    /\ filename = <<>>
    /\ image = <<>>
    /\ calls = <<>>
    /\ doc = <<>>
    /\ ran = <<>>
    /\ detected = {}
    /\ discarded = {}
    /\ hits = 0
    /\ passes = <<>>
    /\ warnings = <<>>
    /\ barcodes = <<>>
    /\ result = <<>>
    /\ NotGenerating
    /\ pc = "package"
    /\ identity \in Identities
    /\ \E bytes \in PassJsonBytes : pass_dir = [n \in {"pass.json"} |-> bytes]
    /\ container = <<>>

\* create_enhanced_pass, lines 683-713
PackageV1 ==
    /\ pc = "package"
    /\ \E assets \in AssetOutcomes :
       \E listing \in Listings(WithAssets(pass_dir, assets)) :
         /\ pass_dir' = SignedDirV1(WithAssets(pass_dir, assets), listing, identity)
         /\ container' = BuildPkpass(pass_dir')
    /\ pc' = "packaged_v1"
    /\ UNCHANGED <<filename, barcodes, result, callVars, pipeVars, passVars, identity, genVars>>

\* _package_pass and PassSigner.package_pass
PackageV2 ==
    /\ pc = "package"
    /\ \E assets \in AssetOutcomes :
         /\ pass_dir' = SignedDirV2(WithAssets(pass_dir, assets), identity)
         /\ container' = BuildPkpass(pass_dir')
    /\ pc' = "packaged_v2"
    /\ UNCHANGED <<filename, barcodes, result, callVars, pipeVars, passVars, identity, genVars>>

NextPackage == PackageV1 \/ PackageV2

SpecPackage == InitPackage /\ [][NextPackage]_vars

Packaged == pc \in {"packaged_v1", "packaged_v2"}

ManifestOf(c) == c["manifest.json"]

ListedNames(c) == {ManifestOf(c)[k].name : k \in 1..Len(ManifestOf(c))}

\* C12: every file name listed in the manifest of a packaged container is in
\* the container, and the hash of its bytes there is the hash the manifest
\* records.
C12_ManifestMatchesContainer ==
    Packaged =>
        /\ "manifest.json" \in DOMAIN container
        /\ \A k \in 1..Len(ManifestOf(container)) :
              /\ ManifestOf(container)[k].name \in DOMAIN container
              /\ Sha1(container[ManifestOf(container)[k].name]) = ManifestOf(container)[k].sha1

\* A signed container with the icons and a thumbnail
C12_Witness ==
    /\ Packaged
    /\ "signature" \in DOMAIN container
    /\ container["signature"] # <<>>
    /\ Len(ManifestOf(container)) = 5

\* The files of a container that the signature covers through the manifest
Bundle(c) == [n \in DOMAIN c \ {"manifest.json", "signature"} |-> c[n]]

\* The manifest the pipeline that packaged the container writes when the
\* directory is listed in the order of listing
ManifestUnder(listing) ==
    IF pc = "packaged_v1" THEN CreateManifestV1(Bundle(container), listing)
    ELSE CreateManifestV2(Bundle(container))

\* C13: the manifest of a packaged container lists every file of the
\* container other than manifest.json (and the signature made from it), and
\* it is the same sequence of entries in whatever order the directory is
\* listed.
C13_ManifestCompleteInStableOrder ==
    Packaged =>
        /\ ListedNames(container) = DOMAIN Bundle(container)
        /\ \A listing \in Listings(Bundle(container)) :
              ManifestOf(container) = ManifestUnder(listing)

\* C14: with no signing identity available the container is still built, it
\* holds pass.json and a manifest.json with the hash of every other file, and
\* its signature file is absent or empty.
C14_UnsignedContainerWellFormed ==
    (Packaged /\ ~CheckCertificatesAvailable(identity)) =>
        /\ "pass.json" \in DOMAIN container
        /\ "manifest.json" \in DOMAIN container
        /\ ListedNames(container) = DOMAIN container \ {"manifest.json"}
        /\ \A k \in 1..Len(ManifestOf(container)) :
              ManifestOf(container)[k].sha1 = Sha1(container[ManifestOf(container)[k].name])
        /\ "signature" \in DOMAIN container => container["signature"] = <<>>

\* Some certificate values and files are there, not enough of either, and the
\* bundle with icons is packaged unsigned
C14_Witness ==
    /\ Packaged
    /\ ~CheckCertificatesAvailable(identity)
    /\ identity.env # {}
    /\ identity.files # {}
    /\ "icon.png" \in DOMAIN container
    /\ "signature" \notin DOMAIN container

\* C15: a packaged container holds a signature file only if signing was
\* enabled and the signature computation succeeded.
C15_SignatureOnlyIfSigned ==
    (Packaged /\ "signature" \in DOMAIN container) =>
        /\ CheckCertificatesAvailable(identity)
        /\ SigningSucceeds(identity)

(***************************************************************************)
(* SpecSerial: the ticket loop of an upload, one pass built per step,      *)
(* while the clock advances.  The clock counts half seconds.               *)
(***************************************************************************)
\* The tickets list of create_pass_from_pdf_data (lines 254-274)
Tickets(n) == [i \in 1..n |-> [ticket_number |-> i, total_tickets |-> n]]

\* f"enhanced-{datetime.now().strftime('%Y%m%d%H%M%S')}": the clock
\* truncated to the second
SerialNumberV1(clock) == <<"enhanced", clock \div 2>>

\* str(uuid.uuid4())[:16]: the k-th value drawn; distinct draws are taken to
\* differ in their first 16 characters
SerialNumberV2(k) == <<"uuid4", k>>

InitSerial ==
    /\ filename = <<>>
    /\ image = <<>>
    /\ calls = <<>>
    /\ doc = <<>>
    /\ ran = <<>>
    /\ detected = {}
    /\ discarded = {}
    /\ hits = 0
    /\ passes = <<>>
    /\ warnings = <<>>
    /\ NotPackaging
    /\ result = <<>>
    /\ pass_info = <<>>
    /\ pc = "upload"
    /\ \E n \in 1..MaxTickets : barcodes = Tickets(n)
    /\ now \in 0..1
    /\ issued = 0

\* Time passes between two steps of the request
Tick ==
    /\ pc \in {"upload", "tickets_v1", "tickets_v2"}
    /\ now < MaxClock
    /\ now' = now + 1
    /\ UNCHANGED <<filename, pc, barcodes, result, callVars, pipeVars, passVars, pkgVars,
                   pass_info, issued>>

\* One iteration of the loop of create_pass_from_pdf_data (lines 282-361):
\* create_enhanced_pass reads the clock for the serial number
TicketV1 ==
    /\ pc \in {"upload", "tickets_v1"}
    /\ Len(passes) < Len(barcodes)
    /\ passes' = Append(passes, [ ticket_number |-> barcodes[Len(passes) + 1].ticket_number,
                                  serialNumber  |-> SerialNumberV1(now) ])
    /\ pc' = "tickets_v1"
    /\ UNCHANGED <<filename, barcodes, result, callVars, pipeVars, warnings, pkgVars, genVars>>

\* One iteration of the loop of create_passes_v2: build_pass draws a uuid4
TicketV2 ==
    /\ pc \in {"upload", "tickets_v2"}
    /\ Len(passes) < Len(barcodes)
    /\ passes' = Append(passes, [ ticket_number |-> barcodes[Len(passes) + 1].ticket_number,
                                  serialNumber  |-> SerialNumberV2(issued + 1) ])
    /\ issued' = issued + 1
    /\ pc' = "tickets_v2"
    /\ UNCHANGED <<filename, barcodes, result, callVars, pipeVars, warnings, pkgVars,
                   pass_info, now>>

NextSerial == Tick \/ TicketV1 \/ TicketV2

SpecSerial == InitSerial /\ [][NextSerial]_vars

\* C18: the passes generated for one document have pairwise distinct serial
\* numbers, whatever the time between two of them.
C18_SerialNumbersPairwiseDistinct ==
    \A i, j \in 1..Len(passes) :
        i # j => passes[i].serialNumber # passes[j].serialNumber

(***************************************************************************)
(* SpecExpiry: the expiration date computed from the metadata's date and   *)
(* time.  A datetime is [day, hour, minute], days numbered from an epoch;  *)
(* a date string either names a day or is words dateutil cannot parse.     *)
(***************************************************************************)
DateTime(d, h, m) == [day |-> d, hour |-> h, minute |-> m]

\* a <= b on datetimes
NotAfter(a, b) ==
    \/ a.day < b.day
    \/ a.day = b.day /\ a.hour < b.hour
    \/ a.day = b.day /\ a.hour = b.hour /\ a.minute <= b.minute

\* date_parser.parse(combined, fuzzy=True, dayfirst=False): midnight when no
\* time is given; <<>> when it raises
DateParse(date_str, time_str) ==
    IF date_str.kind # "iso" THEN <<>>
    ELSE IF time_str = <<>> THEN <<DateTime(date_str.day, 0, 0)>>
    ELSE <<DateTime(date_str.day, time_str.hour, time_str.minute)>>

\* dt.replace(hour=3, minute=0, second=0, microsecond=0), a day later if
\* that is not after dt
ExpireFor(dt) ==
    IF NotAfter(DateTime(dt.day, 3, 0), dt)
    THEN DateTime(dt.day + 1, 3, 0)
    ELSE DateTime(dt.day, 3, 0)

\* + timedelta(days=90)
PlusNinetyDays(dt) == [dt EXCEPT !.day = @ + 90]

\* strftime("%Y-%m-%dT%H:%M:%SZ")
FormatExpiry(dt) == [day |-> dt.day, hour |-> dt.hour, minute |-> dt.minute, zone |-> "Z"]

\* PassGenerator._compute_expiration_date
ComputeExpirationDate(info, clock) ==
    IF info.date = <<>> THEN FormatExpiry(PlusNinetyDays(clock))
    ELSE IF DateParse(info.date, info.time) = <<>> THEN FormatExpiry(PlusNinetyDays(clock))
    ELSE FormatExpiry(ExpireFor(DateParse(info.date, info.time)[1]))

\* pass_builder._compute_expiry
ComputeExpiry(extraction, clock) ==
    IF extraction.date # <<>> /\ DateParse(extraction.date, extraction.time) # <<>>
    THEN FormatExpiry(ExpireFor(DateParse(extraction.date, extraction.time)[1]))
    ELSE FormatExpiry(PlusNinetyDays(clock))

DateStrings == { <<>>, [kind |-> "words"] } \cup { [kind |-> "iso", day |-> d] : d \in 1..MaxDay }

TimeStrings ==
    { <<>> } \cup { [hour |-> t[1], minute |-> t[2]] :
                      t \in { <<0, 0>>, <<1, 30>>, <<2, 59>>, <<3, 0>>, <<19, 30>>, <<23, 59>> } }

InitExpiry ==
    /\ filename = <<>>
    /\ image = <<>>
    /\ calls = <<>>
    /\ doc = <<>>
    /\ ran = <<>>
    /\ detected = {}
    /\ discarded = {}
    /\ hits = 0
    /\ passes = <<>>
    /\ warnings = <<>>
    /\ NotPackaging
    /\ barcodes = <<>>
    /\ result = <<>>
    /\ issued = 0
    /\ pc = "expiry"
    /\ pass_info \in [date : DateStrings, time : TimeStrings]
    /\ \E d \in 1..MaxDay : now = DateTime(d, 10, 15)

\* _compute_expiration_date(pass_info)
ExpiryV1 ==
    /\ pc = "expiry"
    /\ result' = ComputeExpirationDate(pass_info, now)
    /\ pc' = "expiry_v1"
    /\ UNCHANGED <<filename, barcodes, callVars, pipeVars, passVars, pkgVars, genVars>>

\* build_pass: expirationDate = _compute_expiry(extraction)
ExpiryV2 ==
    /\ pc = "expiry"
    /\ passes' = <<[expirationDate |-> ComputeExpiry(pass_info, now)]>>
    /\ pc' = "expiry_v2"
    /\ UNCHANGED <<filename, barcodes, result, callVars, pipeVars, warnings, pkgVars, genVars>>

NextExpiry == ExpiryV1 \/ ExpiryV2

SpecExpiry == InitExpiry /\ [][NextExpiry]_vars

ExpirationDate == IF pc = "expiry_v1" THEN result ELSE passes[1].expirationDate

\* C19: with a parseable event date the expiration date is 03:00 on the day
\* after the event date, whatever the event time; with no date or an
\* unparseable one it is 90 days after the generation time.
C19_NextDayThreeOrNinetyDays ==
    pc \in {"expiry_v1", "expiry_v2"} =>
        IF pass_info.date # <<>> /\ pass_info.date.kind = "iso"
        THEN ExpirationDate = FormatExpiry(DateTime(pass_info.date.day + 1, 3, 0))
        ELSE ExpirationDate = FormatExpiry(DateTime(now.day + 90, now.hour, now.minute))

(***************************************************************************)
(* SpecTitle: the title of the passes built from the ticket metadata.      *)
(* Text is a sequence of one-character strings.                            *)
(***************************************************************************)
Take(s, n) == SubSeq(s, 1, Min(n, Len(s)))

\* Python's `a or b` on strings
Or(a, b) == IF a # <<>> THEN a ELSE b

\* s.replace(from, to) for single characters
ReplaceChar(s, from, to) == [i \in 1..Len(s) |-> IF s[i] = from THEN to ELSE s[i]]

RECURSIVE LStrip(_, _)
LStrip(s, chars) == IF s # <<>> /\ s[1] \in chars THEN LStrip(Tail(s), chars) ELSE s

RECURSIVE RStrip(_, _)
RStrip(s, chars) ==
    IF s # <<>> /\ s[Len(s)] \in chars THEN RStrip(SubSeq(s, 1, Len(s) - 1), chars) ELSE s

\* s.strip(chars)
StripChars(s, chars) == RStrip(LStrip(s, chars), chars)

\* s.strip()
Strip(s) == StripChars(s, {" "})

\* re.sub(r"\s+", " ", s)
RECURSIVE CollapseSpaces(_)
CollapseSpaces(s) ==
    IF Len(s) < 2 THEN s
    ELSE IF s[1] = " " /\ s[2] = " " THEN CollapseSpaces(Tail(s))
    ELSE <<s[1]>> \o CollapseSpaces(Tail(s))

\* s.replace(sub, "")
RECURSIVE RemoveAll(_, _)
RemoveAll(s, sub) ==
    IF Len(s) < Len(sub) THEN s
    ELSE IF SubSeq(s, 1, Len(sub)) = sub THEN RemoveAll(SubSeq(s, Len(sub) + 1, Len(s)), sub)
    ELSE <<s[1]>> \o RemoveAll(Tail(s), sub)

UpperChar(c) ==
    IF \E i \in 1..26 : LowerLetters[i] = c
    THEN UpperLetters[CHOOSE i \in 1..26 : LowerLetters[i] = c]
    ELSE c

AsciiLetters == Range(UpperLetters) \cup Range(LowerLetters)

\* str.title()
TitleCase(s) ==
    [i \in 1..Len(s) |->
        IF s[i] \notin AsciiLetters THEN s[i]
        ELSE IF i = 1 \/ s[i - 1] \notin AsciiLetters THEN UpperChar(s[i])
        ELSE LowerChar(s[i])]

\* [0-9a-fA-F]
HexChars ==
    {"0","1","2","3","4","5","6","7","8","9","a","b","c","d","e","f","A","B","C","D","E","F"}

CountIn(s, chars) == Cardinality({i \in 1..Len(s) : s[i] \in chars})

\* re.fullmatch(r"[0-9a-fA-F]{32}", s)
IsHex32(s) == Len(s) = 32 /\ CountIn(s, HexChars) = 32

\* re.fullmatch of the hyphenated UUID pattern
IsUuid(s) ==
    /\ Len(s) = 36
    /\ \A i \in 1..36 : IF i \in {9, 14, 19, 24} THEN s[i] = "-" ELSE s[i] \in HexChars

EndsWith(s, suffix) ==
    Len(s) >= Len(suffix) /\ SubSeq(s, Len(s) - Len(suffix) + 1, Len(s)) = suffix

TextTicket == <<"T","i","c","k","e","t">>
TextDigitalPass == <<"D","i","g","i","t","a","l"," ","P","a","s","s">>
TextDigitalTicket == <<"D","i","g","i","t","a","l"," ","T","i","c","k","e","t">>
TextPdf == <<".","p","d","f">>

\* The fallback of a rejected title, always the generic label
CleanedFallback_Generic(fallback_name, generic) == generic

\* cleaned_fb = (fallback_name or generic).replace("_", " ").strip();
\* cleaned_fb[:30] if cleaned_fb else generic
CleanedFallback(fallback_name, generic) ==
    LET cleaned_fb == Strip(ReplaceChar(Or(fallback_name, generic), "_", " "))
    IN  IF cleaned_fb # <<>> THEN Take(cleaned_fb, 30) ELSE generic

\* The suspicious fare-class words, in lower case
suspicious ==
    { <<"a","d","u","l","t">>, <<"c","h","i","l","d">>, <<"s","e","n","i","o","r">>, <<"i","n","f","a","n","t">>, <<"y","o","u","t","h">>, <<"z","o","n","e">>, <<"s","e","a","t">>, <<"c","l","a","s","s">>, <<"t","y","p","e">>, <<"f","a","r","e">> }

redundant_suffixes ==
    << <<" ","T","i","c","k","e","t">>, <<" ","E","v","e","n","t">>, <<" ","R","e","c","e","i","p","t">>, <<" ","P","a","s","s">>, <<" ","V","o","u","c","h","e","r">>, <<" ","E","-","t","i","c","k","e","t">>, <<" ","E","t","i","c","k","e","t">> >>

\* The loop over redundant_suffixes: the first suffix the title ends with,
\* in either case, is cut off
RemoveRedundantSuffix(cleaned) ==
    LET matching == { k \in 1..Len(redundant_suffixes) :
                        EndsWith(Lower(cleaned), Lower(redundant_suffixes[k])) }
    IN  IF matching = {} THEN cleaned
        ELSE LET k == CHOOSE m \in matching : \A n \in matching : m <= n
             IN  Strip(SubSeq(cleaned, 1, Len(cleaned) - Len(redundant_suffixes[k])))

\* PassGenerator._sanitize_title
SanitizeTitle(title, fallback_name) ==
    IF Strip(title) = <<>> THEN CleanedFallback(fallback_name, TextTicket)
    ELSE LET cleaned == StripChars(Strip(CollapseSpaces(ReplaceChar(title, "_", " "))), {"\""})
         IN  IF IsUuid(cleaned) \/ IsHex32(cleaned)
             THEN CleanedFallback(fallback_name, TextDigitalPass)
             ELSE IF CountIn(cleaned, AsciiLetters) < 2
             THEN CleanedFallback(fallback_name, TextTicket)
             ELSE IF " " \notin Range(cleaned) /\ Len(cleaned) >= 20
             THEN CleanedFallback(fallback_name, TextDigitalPass)
             ELSE IF CountIn(cleaned, HexChars) * 5 > 4 * Max(1, Len(cleaned))
             THEN CleanedFallback(fallback_name, TextDigitalPass)
             ELSE IF Strip(Lower(cleaned)) \in suspicious
             THEN CleanedFallback(fallback_name, TextDigitalPass)
             ELSE Take(RemoveRedundantSuffix(cleaned), 30)

\* Lines 315-318: the title of the metadata, else the event or venue name,
\* else the file name
BaseTitle(info, name) ==
    Or(info.title, Or(info.event_name, Or(info.venue_name,
        TitleCase(ReplaceChar(RemoveAll(name, TextPdf), "_", " ")))))

DigitChars == <<"1","2","3","4","5","6","7","8","9">>

\* f"{base_title} (#{ticket_num})" for more than one ticket (lines 319-325)
TicketTitle(base_title, ticket_num, total_tickets) ==
    IF total_tickets > 1
    THEN base_title \o <<" ", "(", "#", DigitChars[ticket_num], ")">>
    ELSE base_title

\* The title of ticket ticket_num in create_pass_from_pdf_data
TitleV1(info, name, ticket_num, total_tickets) ==
    TicketTitle(SanitizeTitle(BaseTitle(info, name), Or(info.event_name, name)),
                ticket_num, total_tickets)

\* create_enhanced_pass: header value, primary title field, logoText
TitleFieldsV1(title, info) ==
    [ header   |-> IF info.event_type # <<>> /\ Lower(info.event_type) # <<"o","t","h","e","r">>
                   THEN Take(title, 25)
                   ELSE IF info.event_name # <<>> THEN Take(title, 25)
                   ELSE TextDigitalPass,
      primary  |-> title,
      logoText |-> Take(title, 20) ]

\* _heuristic_extract: the title from the file name
HeuristicTitle(name) ==
    LET base == CollapseSpaces(Strip(ReplaceChar(RemoveAll(name, TextPdf), "_", " ")))
    IN  IF CountIn(base, AsciiLetters) < 3 THEN TextDigitalTicket ELSE Take(base, 30)

\* PDFExtraction.sanitize_title
sanitize_title(v) ==
    IF Strip(v) = <<>> THEN TextDigitalPass
    ELSE IF /\ Len(RemoveAll(Strip(v), <<"-">>)) >= 32
            /\ CountIn(RemoveAll(Strip(v), <<"-">>), HexChars) = Len(RemoveAll(Strip(v), <<"-">>))
    THEN TextDigitalPass
    ELSE Take(Strip(v), 30)

\* AIExtractor.extract: PDFExtraction(**data) rejects a title longer than
\* max_length=30 before sanitize_title runs, and the heuristic extraction
\* takes over
ExtractedTitleV2(info, name) ==
    IF Len(info.title) > 30 THEN sanitize_title(HeuristicTitle(name))
    ELSE sanitize_title(info.title)

\* build_pass and _build_structure: header value, primary title field, logoText
TitleFieldsV2(title, ticket_num, total_tickets) ==
    [ header   |-> Take(title, 25),
      primary  |-> title,
      logoText |-> Take(TicketTitle(title, ticket_num, total_tickets), 20) ]

Hex32Title == <<"0","1","2","3","4","5","6","7","8","9","a","b","c","d","e","f","0","1","2","3","4","5","6","7","8","9","a","b","c","d","e","f">>
NameHexFile == Hex32Title \o TextPdf
TextJazzNight == <<"J","a","z","z"," ","N","i","g","h","t">>

TitleInfos ==
    [ title        : { Hex32Title, TextJazzNight, <<"S","u","m","m","e","r"," ","P","a","s","s">>, <<>> },
      event_name   : { <<>>, TextJazzNight },
      venue_name   : { <<>> },
      event_type   : { <<>>, <<"c","o","n","c","e","r","t">>, <<"o","t","h","e","r">> },
      organization : { <<>>, <<"A","c","m","e">> } ]

InitTitle ==
    /\ filename \in {NameTicket, NameHexFile}
    /\ image = <<>>
    /\ calls = <<>>
    /\ doc = <<>>
    /\ ran = <<>>
    /\ detected = {}
    /\ discarded = {}
    /\ hits = 0
    /\ passes = <<>>
    /\ warnings = <<>>
    /\ NotPackaging
    /\ result = <<>>
    /\ now = 0
    /\ issued = 0
    /\ pc = "titles"
    /\ \E n \in 1..2 : barcodes = Tickets(n)
    /\ pass_info \in TitleInfos

\* create_pass_from_pdf_data: the title fields of every ticket's pass
TitlesV1 ==
    /\ pc = "titles"
    /\ passes' = [k \in 1..Len(barcodes) |->
                    TitleFieldsV1(TitleV1(pass_info, filename, k, Len(barcodes)), pass_info)]
    /\ pc' = "titles_v1"
    /\ UNCHANGED <<filename, barcodes, result, callVars, pipeVars, warnings, pkgVars, genVars>>

\* create_passes_v2: the title fields of every ticket's pass
TitlesV2 ==
    /\ pc = "titles"
    /\ passes' = [k \in 1..Len(barcodes) |->
                    TitleFieldsV2(ExtractedTitleV2(pass_info, filename), k, Len(barcodes))]
    /\ pc' = "titles_v2"
    /\ UNCHANGED <<filename, barcodes, result, callVars, pipeVars, warnings, pkgVars, genVars>>

NextTitle == TitlesV1 \/ TitlesV2

SpecTitle == InitTitle /\ [][NextTitle]_vars

\* A title field shows the hex string when it is its first 20 characters
\* (the width of logoText) or more
CarriesHex(field, hex) == Len(field) >= 20 /\ Take(field, 20) = Take(hex, 20)

\* organizationName of the pass: the metadata's organization or "Add2Wallet"
OrganizationName(info) == Or(info.organization, <<"A","d","d","2","W","a","l","l","e","t">>)

\* C20: when the extracted title is a 32-character hex string, no pass shows
\* it as header value, primary title or logoText, and the title shown is the
\* organization name.
C20_HexTitleReplacedByOrganization ==
    (pc \in {"titles_v1", "titles_v2"} /\ IsHex32(pass_info.title)) =>
        \A k \in 1..Len(passes) :
            /\ ~CarriesHex(passes[k].header, pass_info.title)
            /\ ~CarriesHex(passes[k].primary, pass_info.title)
            /\ ~CarriesHex(passes[k].logoText, pass_info.title)
            /\ passes[k].primary =
                  TicketTitle(Take(OrganizationName(pass_info), 30), k, Len(passes))

(***************************************************************************)
(* SpecDecode: decode_with_formats called on an image.                     *)
(***************************************************************************)
\* str.encode('utf-8') of one code point
Utf8EncodeChar(cp) ==
    IF cp < 128 THEN <<cp>>
    ELSE IF cp < 2048 THEN <<192 + (cp \div 64), 128 + (cp % 64)>>
    ELSE IF cp < 65536
    THEN <<224 + (cp \div 4096), 128 + ((cp \div 64) % 64), 128 + (cp % 64)>>
    ELSE <<240 + (cp \div 262144), 128 + ((cp \div 4096) % 64),
           128 + ((cp \div 64) % 64), 128 + (cp % 64)>>

\* str.encode('utf-8')
RECURSIVE Utf8Encode(_)
Utf8Encode(text) ==
    IF text = <<>> THEN <<>>
    ELSE Utf8EncodeChar(Head(text)) \o Utf8Encode(Tail(text))

\* str.encode('iso-8859-1') of text whose code points are all below 256
Latin1Encode(text) == [i \in 1..Len(text) |-> text[i] % 256]

\* Payloads a symbol can carry, each with whether it is well-formed UTF-8:
\* ASCII, two-, three- and four-byte characters, a lone Latin-1 byte, an
\* overlong form, an encoded surrogate and a truncated character
DecodePayloads ==
    { [bytes |-> <<72, 105>>,            utf8 |-> TRUE],
      [bytes |-> <<195, 169>>,           utf8 |-> TRUE],
      [bytes |-> <<226, 130, 172>>,      utf8 |-> TRUE],
      [bytes |-> <<240, 159, 152, 128>>, utf8 |-> TRUE],
      [bytes |-> <<233>>,                utf8 |-> FALSE],
      [bytes |-> <<192, 128>>,           utf8 |-> FALSE],
      [bytes |-> <<237, 160, 128>>,      utf8 |-> FALSE],
      [bytes |-> <<65, 195>>,            utf8 |-> FALSE] }

DecodeDetections ==
    { [type |-> t, data |-> p.bytes, rect |-> Rect(1, 1, 2, 2)] :
        t \in {"QRCODE", "AZTEC"}, p \in DecodePayloads }

InitDecode ==
    /\ NoRequest
    /\ filename = <<>>
    /\ barcodes = <<>>
    /\ result = <<>>
    /\ pc = "decode"
    /\ image \in SeqsUpTo(DecodeDetections, MaxSymbols)
    /\ \E formats \in {{"QRCODE"}, {"AZTEC"}, {"QRCODE", "AZTEC"}} : calls = <<formats>>

\* decode_with_formats(image, formats)
Decode ==
    /\ pc = "decode"
    /\ result' = DecodeWithFormats(image, calls[1])
    /\ pc' = "decoded"
    /\ UNCHANGED <<filename, barcodes, callVars, pipeVars, passVars, pkgVars, genVars>>

SpecDecode == InitDecode /\ [][Decode]_vars

\* The detections of the image whose symbology is among the formats
Wanted == SelectSeq(image, LAMBDA barcode : barcode.type \in calls[1])

\* C21: every candidate decode_with_formats returns has the payload of its
\* detection as raw_bytes, byte for byte; its encoding is 'utf-8' when the
\* payload is well-formed UTF-8 and 'iso-8859-1' otherwise; and its data
\* encoded with that encoding is raw_bytes again.
C21_RawBytesExactAndRoundTrip ==
    pc = "decoded" =>
        /\ Len(result) = Len(Wanted)
        /\ \A i \in 1..Len(result) :
              /\ result[i].raw_bytes = Wanted[i].data
              /\ result[i].encoding =
                    IF [bytes |-> Wanted[i].data, utf8 |-> TRUE] \in DecodePayloads
                    THEN "utf-8" ELSE "iso-8859-1"
              /\ result[i].encoding = "utf-8" => Utf8Encode(result[i].data) = result[i].raw_bytes
              /\ result[i].encoding = "iso-8859-1" =>
                    Latin1Encode(result[i].data) = result[i].raw_bytes

\* One image with a multi-byte UTF-8 payload and a payload that is not UTF-8
C21_Witness ==
    /\ pc = "decoded"
    /\ Len(result) = 2
    /\ result[1].encoding = "utf-8"
    /\ Len(result[1].data) < Len(result[1].raw_bytes)
    /\ result[2].encoding = "iso-8859-1"

(***************************************************************************)
(* SpecConsolidate: _consolidate_barcodes_for_single_pass on lists that    *)
(* mix visual detections and candidates of the text-based fallback.        *)
(***************************************************************************)
PayloadA == <<65>>
PayloadAB == <<65, 66>>

ConsolidateCandidate(type, data, source, confidence) ==
    [ data            |-> data,
      type            |-> type,
      format          |-> IF type = "AZTEC" THEN "PKBarcodeFormatAztec"
                                            ELSE "PKBarcodeFormatQR",
      source          |-> source,
      confidence      |-> confidence,
      center_distance |-> 0 ]

ConsolidateCandidates ==
    { ConsolidateCandidate("QRCODE", PayloadQ, "rasterized-page", 90),
      ConsolidateCandidate("AZTEC", PayloadA, "embedded-image", 90),
      ConsolidateCandidate("QRCODE", PayloadA, "text-analysis", 75),
      ConsolidateCandidate("QRCODE", PayloadA, "text-analysis", 80),
      ConsolidateCandidate("DATAMATRIX", PayloadA, "text-analysis", 75),
      ConsolidateCandidate("QRCODE", PayloadAB, "text-analysis", 75) }

InitConsolidate ==
    /\ NoRequest
    /\ image = <<>>
    /\ calls = <<>>
    /\ result = <<>>
    /\ pc = "consolidate"
    /\ filename \in Filenames
    /\ barcodes \in SeqsUpTo(ConsolidateCandidates, MaxConsolidated)

\* _consolidate_barcodes_for_single_pass(barcodes, filename)
Consolidate ==
    /\ pc = "consolidate"
    /\ result' = ConsolidateBarcodesForSinglePass(barcodes, filename)
    /\ pc' = "consolidated"
    /\ UNCHANGED <<filename, barcodes, callVars, pipeVars, passVars, pkgVars, genVars>>

SpecConsolidate == InitConsolidate /\ [][Consolidate]_vars

IsVisual(bc) == bc.source # "text-analysis"

VisualPositions == {i \in 1..Len(barcodes) : IsVisual(barcodes[i])}

\* The position in barcodes of its k-th visual candidate
KthVisual(k) ==
    CHOOSE i \in VisualPositions :
        Cardinality({j \in VisualPositions : j <= i}) = k

\* C23: given two or more candidates of which at least one is a visual
\* detection, _consolidate_barcodes_for_single_pass returns exactly the
\* visual candidates, each once and in their order: no candidate of the
\* text-based fallback is returned.
C23_VisualCandidatesOnly ==
    (pc = "consolidated" /\ Len(barcodes) >= 2 /\ VisualPositions # {}) =>
        /\ Len(result) = Cardinality(VisualPositions)
        /\ \A k \in 1..Len(result) :
              /\ IsVisual(result[k])
              /\ result[k] = barcodes[KthVisual(k)]

\* One visual detection between two text candidates that a heuristic would
\* otherwise consolidate
C23_Witness ==
    /\ pc = "consolidated"
    /\ Len(barcodes) = 3
    /\ VisualPositions = {2}
    /\ barcodes[1].data = barcodes[3].data
    /\ result = <<barcodes[2]>>

TextOnlyIdentical ==
    /\ Len(barcodes) >= 2
    /\ VisualPositions = {}
    /\ \A i \in 1..Len(barcodes) : barcodes[i].data = barcodes[1].data

\* C24: when all candidates come from the text-based fallback and their
\* payloads are identical, _consolidate_barcodes_for_single_pass returns a
\* single barcode, one of the most confident candidates, for any number
\* (two or more) of candidates.
C24_IdenticalTextCandidatesBecomeOne ==
    (pc = "consolidated" /\ TextOnlyIdentical) =>
        /\ Len(result) = 1
        /\ result[1].data = barcodes[1].data
        /\ \A i \in 1..Len(barcodes) : barcodes[i].confidence <= result[1].confidence

\* What _consolidate_barcodes_for_single_pass does: two or three identical
\* text candidates become one, marked with the number it was consolidated
\* from; four or more are returned unchanged.
C24_OneOnlyUpToThree ==
    (pc = "consolidated" /\ TextOnlyIdentical) =>
        IF Len(barcodes) <= 3
        THEN /\ Len(result) = 1
             /\ result[1].data = barcodes[1].data
             /\ \A i \in 1..Len(barcodes) : barcodes[i].confidence <= result[1].confidence
             /\ result[1].consolidated_from = Len(barcodes)
             /\ result[1].consolidation_method = "duplicate_barcodes"
        ELSE result = barcodes

(***************************************************************************)
(* SpecFields: the secondary and auxiliary field arrays of one pass, as    *)
(* create_enhanced_pass (v1) and _build_structure (v2) fill them.          *)
(***************************************************************************)
PassField(key, label, value) == [key |-> key, label |-> label, value |-> value]

\* field appended when its value is truthy
FieldIf(key, label, value) ==
    IF value # <<>> THEN <<PassField(key, label, value)>> ELSE <<>>

\* A variant that shows the gate next to the seat
SeatOrGate_Both(info) ==
    FieldIf("seat", "Seat", info.seat_info) \o FieldIf("gate", "Gate", info.gate_info)

\* if seat_info: seat field; elif gate_info: gate field
SeatOrGate(info) ==
    IF info.seat_info # <<>> THEN <<PassField("seat", "Seat", info.seat_info)>>
    ELSE FieldIf("gate", "Gate", info.gate_info)

\* Both pipelines: date, time, seat or gate
SecondaryFields(info) ==
    FieldIf("date", "Date", info.date)
        \o FieldIf("time", "Time", info.time)
        \o SeatOrGate(info)

\* datetime.now().strftime("%b %d, %Y")
GeneratedOn(t) ==
    IF t = 0 THEN <<"N","o","v"," ","0","5",","," ","2","0","2","6">>
             ELSE <<"N","o","v"," ","0","6",","," ","2","0","2","6">>

\* create_enhanced_pass: auxiliary_fields
AuxiliaryFieldsV1(info, t) ==
    (IF info.venue_name # <<>> THEN <<PassField("venue", "Venue", info.venue_name)>>
     ELSE FieldIf("venue", "Venue", info.venue))
        \o (IF info.performer # <<>>
            THEN <<PassField("artist", "Artist", info.performer)>>
            ELSE FieldIf("organizer", "Organizer", info.organizer))
        \o FieldIf("confirmation", "Confirmation", info.confirmation_number)
        \o FieldIf("price", "Price", info.price)
        \o (IF info.venue_name = <<>> /\ info.venue = <<>>
            THEN (IF info.city # <<>>
                  THEN <<PassField("location", "Location", info.city)>>
                  ELSE FieldIf("address", "Address", Take(info.venue_address, 50)))
            ELSE <<>>)
        \o <<PassField("generated", "Generated", GeneratedOn(t))>>

\* _build_structure: auxiliary
AuxiliaryFieldsV2(info) ==
    FieldIf("venue", "Venue", info.venue_name)
        \o FieldIf("performer", "Artist", info.performer)
        \o FieldIf("confirmation", "Confirmation", info.confirmation_number)
        \o FieldIf("price", "Price", info.price)

LongAddress == [i \in 1..51 |-> "x"]

\* The metadata of one request: every value absent or one text.  v1 reads
\* the performer under 'performer_artist', v2 under 'performer'; 'venue',
\* 'organizer' and 'city' exist in v1's metadata only.
FieldInfos ==
    [ date                : {<<>>, <<"2","0","2","6","-","1","1","-","0","7">>},
      time                : {<<>>, <<"2","0",":","0","0">>},
      seat_info           : {<<>>, <<"A","1","2">>},
      gate_info           : {<<>>, <<"G","7">>},
      venue_name          : {<<>>, <<"H","a","l","l">>},
      venue               : {<<>>, <<"O","l","d">>},
      performer           : {<<>>, <<"T","r","i","o">>},
      organizer           : {<<>>, <<"C","l","u","b">>},
      confirmation_number : {<<>>, <<"X","Y","Z","7">>},
      price               : {<<>>, <<"$","9">>},
      city                : {<<>>, <<"R","o","m","e">>},
      venue_address       : {<<>>, LongAddress} ]

InitFields ==
    /\ filename = <<>>
    /\ image = <<>>
    /\ calls = <<>>
    /\ doc = <<>>
    /\ ran = <<>>
    /\ detected = {}
    /\ discarded = {}
    /\ hits = 0
    /\ passes = <<>>
    /\ warnings = <<>>
    /\ NotPackaging
    /\ barcodes = <<>>
    /\ result = <<>>
    /\ issued = 0
    /\ now \in 0..1
    /\ pc = "fields"
    /\ pass_info \in FieldInfos

\* create_enhanced_pass: the secondary and auxiliary fields of pass.json
FieldsV1 ==
    /\ pc = "fields"
    /\ passes' = <<[secondaryFields |-> SecondaryFields(pass_info),
                    auxiliaryFields |-> AuxiliaryFieldsV1(pass_info, now)]>>
    /\ pc' = "fields_v1"
    /\ UNCHANGED <<filename, barcodes, result, callVars, pipeVars, warnings, pkgVars, genVars>>

\* build_pass: the secondary and auxiliary fields of the pass structure
FieldsV2 ==
    /\ pc = "fields"
    /\ passes' = <<[secondaryFields |-> SecondaryFields(pass_info),
                    auxiliaryFields |-> AuxiliaryFieldsV2(pass_info)]>>
    /\ pc' = "fields_v2"
    /\ UNCHANGED <<filename, barcodes, result, callVars, pipeVars, warnings, pkgVars, genVars>>

NextFields == FieldsV1 \/ FieldsV2

SpecFields == InitFields /\ [][NextFields]_vars

FieldsBuilt == pc \in {"fields_v1", "fields_v2"}

\* The values of a field array, in order
ValuesOf(fields) == [i \in 1..Len(fields) |-> fields[i].value]

\* The present ones of a list of source values, in order
PresentOf(values) == SelectSeq(values, LAMBDA v : v # <<>>)

First(a, b) == IF a # <<>> THEN a ELSE b

ListedSecondary ==
    PresentOf(<<pass_info.date, pass_info.time,
                First(pass_info.seat_info, pass_info.gate_info)>>)

\* v2's metadata has no organizer and no old-style venue
ListedAuxiliary ==
    IF pc = "fields_v1"
    THEN PresentOf(<<First(pass_info.venue_name, pass_info.venue),
                     First(pass_info.performer, pass_info.organizer),
                     pass_info.confirmation_number, pass_info.price>>)
    ELSE PresentOf(<<pass_info.venue_name, pass_info.performer,
                     pass_info.confirmation_number, pass_info.price>>)

\* C25 as stated: in every built pass the secondary fields are exactly the
\* present ones of date, time, seat-or-gate, and the auxiliary fields exactly
\* the present ones of venue, performer-or-organizer, confirmation number,
\* price, in that order, with no other field added.
C25_OnlyListedFieldsInOrder ==
    FieldsBuilt =>
        /\ ValuesOf(passes[1].secondaryFields) = ListedSecondary
        /\ ValuesOf(passes[1].auxiliaryFields) = ListedAuxiliary

\* What v1 appends after the listed auxiliary fields
AppendedV1 ==
    (IF pass_info.venue_name = <<>> /\ pass_info.venue = <<>>
     THEN PresentOf(<<First(pass_info.city, Take(pass_info.venue_address, 50))>>)
     ELSE <<>>)
        \o <<GeneratedOn(now)>>

\* C25: in every built pass the secondary fields are exactly the present
\* ones of date, time, seat-or-gate in that order (gate omitted when a seat
\* is present); the auxiliary fields start with exactly the present ones of
\* venue, performer-or-organizer, confirmation number, price in that order;
\* v2 adds nothing else, while v1 appends a location field (city, else the
\* address cut to 50 characters) when there is no venue, and always a
\* final 'generated' field with the day of generation.
C25_ListedFieldsThenV1Extras ==
    FieldsBuilt =>
        /\ ValuesOf(passes[1].secondaryFields) = ListedSecondary
        /\ ValuesOf(passes[1].auxiliaryFields) =
              ListedAuxiliary \o (IF pc = "fields_v1" THEN AppendedV1 ELSE <<>>)
        /\ \A i \in 1..Len(passes[1].secondaryFields) :
              passes[1].secondaryFields[i].key \in {"date", "time", "seat", "gate"}
        /\ \A i, j \in 1..Len(passes[1].auxiliaryFields) :
              i # j => passes[1].auxiliaryFields[i].key # passes[1].auxiliaryFields[j].key

\* A v1 pass with seat and gate both known, an organizer but no performer,
\* and a city but no venue
C25_Witness ==
    /\ pc = "fields_v1"
    /\ pass_info.seat_info # <<>> /\ pass_info.gate_info # <<>>
    /\ pass_info.performer = <<>> /\ pass_info.organizer # <<>>
    /\ pass_info.venue_name = <<>> /\ pass_info.venue = <<>> /\ pass_info.city # <<>>
    /\ Len(passes[1].secondaryFields) = 1
    /\ Len(passes[1].auxiliaryFields) = 3

(***************************************************************************)
(* create_passes_v2, step 5: every ticket's pass definition is built by    *)
(* build_pass, validated, packaged, and described in ticket_info.          *)
(*                                                                         *)
(* A date is [year, month, day]; a datetime adds hour, minute, second.     *)
(***************************************************************************)
DigitChar(d) == <<"0", "1", "2", "3", "4", "5", "6", "7", "8", "9">>[d + 1]

DigitValue(c) == CHOOSE d \in 0..9 : DigitChar(d) = c

\* str(n) of a natural number
RECURSIVE Decimal(_)
Decimal(n) ==
    IF n < 10 THEN <<DigitChar(n)>>
    ELSE Decimal(n \div 10) \o <<DigitChar(n % 10)>>

\* %m, %d, %H, %M, %S: two digits, zero-padded
TwoDigits(n) == <<DigitChar((n \div 10) % 10), DigitChar(n % 10)>>

\* %Y: the year's digits, padded to four with zeros or not padded at all,
\* as the platform's C library does it
YearDigits(y, pads_year) ==
    IF pads_year
    THEN <<DigitChar((y \div 1000) % 10), DigitChar((y \div 100) % 10),
           DigitChar((y \div 10) % 10), DigitChar(y % 10)>>
    ELSE Decimal(y)

\* strftime("%Y-%m-%dT%H:%M:%SZ")
Strftime(dt, pads_year) ==
    YearDigits(dt.year, pads_year) \o <<"-">> \o TwoDigits(dt.month) \o <<"-">> \o TwoDigits(dt.day)
        \o <<"T">> \o TwoDigits(dt.hour) \o <<":">> \o TwoDigits(dt.minute)
        \o <<":">> \o TwoDigits(dt.second) \o <<"Z">>

IsLeap(y) == (y % 4 = 0 /\ y % 100 # 0) \/ y % 400 = 0

DaysIn(y, mo) ==
    IF mo = 2 THEN (IF IsLeap(y) THEN 29 ELSE 28)
    ELSE IF mo \in {4, 6, 9, 11} THEN 30 ELSE 31

\* + timedelta(days=n)
RECURSIVE AddDays(_, _)
AddDays(dt, n) ==
    LET left == DaysIn(dt.year, dt.month) - dt.day
    IN  IF n <= left THEN [dt EXCEPT !.day = @ + n]
        ELSE IF dt.month < 12
             THEN AddDays([dt EXCEPT !.day = 1, !.month = @ + 1], n - left - 1)
        ELSE AddDays([dt EXCEPT !.day = 1, !.month = 1, !.year = @ + 1], n - left - 1)

\* dateutil's parse of f"{date} {time}" (or of the date alone): a date
\* YYYY-MM-DD gives that day, with its four-digit year taken as written, at
\* the time HH:MM or at midnight; any other text raises (None)
ParseCombined(date, time) ==
    IF /\ Len(date) = 10 /\ AllDigits(date, 1, 4) /\ date[5] = "-"
       /\ AllDigits(date, 6, 7) /\ date[8] = "-" /\ AllDigits(date, 9, 10)
       /\ (time = <<>> \/ (Len(time) = 5 /\ AllDigits(time, 1, 2) /\ time[3] = ":"
                             /\ AllDigits(time, 4, 5)))
    THEN Some([ year   |-> 1000 * DigitValue(date[1]) + 100 * DigitValue(date[2])
                             + 10 * DigitValue(date[3]) + DigitValue(date[4]),
                month  |-> 10 * DigitValue(date[6]) + DigitValue(date[7]),
                day    |-> 10 * DigitValue(date[9]) + DigitValue(date[10]),
                hour   |-> IF time = <<>> THEN 0
                           ELSE 10 * DigitValue(time[1]) + DigitValue(time[2]),
                minute |-> IF time = <<>> THEN 0
                           ELSE 10 * DigitValue(time[4]) + DigitValue(time[5]),
                second |-> 0 ])
    ELSE None

\* pass_builder._compute_expiry, as the string it returns
ComputeExpiryString(extraction, clock, pads_year) ==
    LET parsed == IF extraction.date # <<>>
                  THEN ParseCombined(extraction.date, extraction.time) ELSE None
    IN  IF parsed # None
        THEN LET dt == parsed[1]
                 expire == [dt EXCEPT !.hour = 3, !.minute = 0, !.second = 0]
             IN  Strftime(IF dt.hour >= 3 THEN AddDays(expire, 1) ELSE expire, pads_year)
        ELSE Strftime(AddDays(clock, 90), pads_year)

TextSeparator == <<" ", "-", " ">>

\* " • ".join(parts): the parts with the separator between them
RECURSIVE Join(_, _)
Join(parts, sep) ==
    IF parts = <<>> THEN <<>>
    ELSE IF Len(parts) = 1 THEN parts[1]
    ELSE parts[1] \o sep \o Join(Tail(parts), sep)

\* pass_builder._build_description
BuildDescription(extraction) ==
    LET parts == SelectSeq(<<extraction.date, extraction.time, extraction.venue_name>>,
                           LAMBDA v : v # <<>>)
    IN  IF parts # <<>> THEN Take(Join(parts, TextSeparator), 80)
        ELSE <<"D","i","g","i","t","a","l"," ","p","a","s","s">>

\* f"{description} - Ticket {ticket_index + 1} of {total_tickets}"
TicketDescription(description, ticket_num, total_tickets) ==
    IF total_tickets > 1
    THEN description \o <<" ", "-", " ", "T","i","c","k","e","t"," ">>
             \o Decimal(ticket_num) \o <<" ", "o", "f", " ">> \o Decimal(total_tickets)
    ELSE description

\* _build_structure: the keys of each field array
BuildStructure(extraction) ==
    LET KeysOf(fields) == [i \in 1..Len(fields) |-> fields[i].key]
    IN  [ headerFields    |-> <<"header">>,
          primaryFields   |-> <<"title">>,
          secondaryFields |-> KeysOf(SecondaryFields(extraction)),
          auxiliaryFields |-> KeysOf(AuxiliaryFieldsV2(extraction)),
          backFields      |-> <<>>,
          transitType     |-> "" ]

\* bc = barcodes[ticket_index] if ticket_index < len(barcodes) else barcodes[0]
\* (ticket_index counts from 0)
SelectedBarcode(ticket_barcodes, ticket_index) ==
    IF ticket_index < Len(ticket_barcodes) THEN ticket_barcodes[ticket_index + 1]
    ELSE ticket_barcodes[1]

\* pass_builder.build_pass
BuildPassJSON(extraction, ticket_barcodes, colors, ticket_index, total_tickets, serial, clock, pads_year) ==
    LET bc == SelectedBarcode(ticket_barcodes, ticket_index)
        style == IF extraction.document_type = "event_ticket" THEN "eventTicket"
                                                              ELSE "generic"
    IN  [ formatVersion      |-> 1,
          passTypeIdentifier |-> "pass.com.andresboedo.add2wallet",
          serialNumber       |-> serial,
          teamIdentifier     |-> "H9DPH4DQG7",
          organizationName   |-> Or(extraction.organization, <<"A","d","d","2","W","a","l","l","e","t">>),
          description        |-> TicketDescription(BuildDescription(extraction),
                                                   ticket_index + 1, total_tickets),
          logoText           |-> Take(TicketTitle(extraction.title, ticket_index + 1,
                                                  total_tickets), 20),
          styles             |-> [st \in {style} |-> BuildStructure(extraction)],
          foregroundColor    |-> Some(colors.fg),
          backgroundColor    |-> Some(colors.bg),
          labelColor         |-> Some(colors.label),
          expirationDate     |-> Some(ComputeExpiryString(extraction, clock, pads_year)),
          relevantDate       |-> None ]
        @@ (IF ticket_barcodes # <<>> THEN WithBarcode(bc.pk_format, bc.message) ELSE <<>>)

\* _EVENT_DEFAULTS.get(document_type, _DEFAULT_PALETTE)
EventDefaults(document_type) ==
    [ bg    |-> IF document_type = "event_ticket"
                THEN [kind |-> "rgb", r |-> 255, g |-> 45, b |-> 85]
                ELSE [kind |-> "rgb", r |-> 0, g |-> 122, b |-> 255],
      fg    |-> White,
      label |-> White ]

\* color_extractor.extract_colors: the dominant colour of the pages with the
\* text colours _pick_text_colors gives for it, or the defaults
ExtractColors(dominant, document_type) ==
    IF dominant = None THEN EventDefaults(document_type)
    ELSE [ bg    |-> dominant[1].color,
           fg    |-> IF dominant[1].light THEN Black ELSE White,
           label |-> IF dominant[1].light
                     THEN [kind |-> "rgb", r |-> 60, g |-> 60, b |-> 67] ELSE White ]

\* json.dump of the pass definition, by the part of it that differs between
\* the passes of one request: the serial number's draw and the message
PassJsonFile(pass_json) ==
    <<123, 48 + pass_json.serialNumber[2]>>
        \o (IF "barcode" \in DOMAIN pass_json THEN Utf8Encode(pass_json.barcode.message)
            ELSE <<>>)
        \o <<125>>

\* orchestrator._package_pass
PackagePass(pass_json, assets, ident) ==
    BuildPkpass(SignedDirV2(WithAssets([n \in {"pass.json"} |-> PassJsonFile(pass_json)],
                                       assets), ident))

\* A variant that leaves a pass with validation errors unpackaged
Packaged_OnlyIfValid(verdict, pkpass_data) ==
    IF verdict.is_valid THEN <<pkpass_data>> ELSE <<>>

\* pkpass_files.append(pkpass_data), whatever validate_pass returned
PackagedFiles(verdict, pkpass_data) == <<pkpass_data>>

\* The ticket_info entry of ticket i
TicketInfo(extraction, ticket_barcodes, pass_json, i, total_tickets) ==
    [ ticket_number |-> i,
      total_tickets |-> total_tickets,
      title         |-> TicketTitle(extraction.title, i, total_tickets),
      description   |-> pass_json.description,
      barcode       |-> IF ticket_barcodes # <<>>
                        THEN Some([ data   |-> ticket_barcodes[1].message,
                                    type   |-> ticket_barcodes[1].source_type,
                                    format |-> ticket_barcodes[1].pk_format ])
                        ELSE None ]

\* A variant that hands every ticket the first barcode
TicketBarcodes_First(extracted, i) ==
    IF extracted # <<>> THEN <<extracted[1]>> ELSE <<>>

\* ticket_barcodes = [barcodes[i]] if i < len(barcodes) else [] (i from 1 here)
TicketBarcodes(extracted, i) ==
    IF i <= Len(extracted) THEN <<extracted[i]>> ELSE <<>>

\* Step 5 of create_passes_v2: tickets i.. of total_tickets
RECURSIVE TicketLoop(_, _, _, _, _)
TicketLoop(extracted, i, total_tickets, all_warnings, request) ==
    IF i > total_tickets
    THEN [passes |-> <<>>, pkpass_files |-> <<>>, ticket_info |-> <<>>,
          warnings |-> all_warnings]
    ELSE LET ticket_barcodes == TicketBarcodes(extracted, i)
             pass_json == BuildPassJSON(request.extraction, ticket_barcodes, request.colors,
                                        i - 1, total_tickets, SerialNumberV2(i),
                                        request.clock, request.identity.pads_year)
             verdict == validate_pass(pass_json)
             pkpass_data == PackagePass(pass_json, request.assets, request.identity)
             rest == TicketLoop(extracted, i + 1, total_tickets,
                                IF verdict.is_valid THEN all_warnings
                                ELSE AddValidation(all_warnings, verdict.errors, 1),
                                request)
         IN  [ passes       |-> <<pass_json>> \o rest.passes,
               pkpass_files |-> PackagedFiles(verdict, pkpass_data) \o rest.pkpass_files,
               ticket_info  |-> <<TicketInfo(request.extraction, ticket_barcodes,
                                             pass_json, i, total_tickets)>>
                                    \o rest.ticket_info,
               warnings     |-> rest.warnings ]

(***************************************************************************)
(* SpecTickets: one upload through create_passes_v2 once its barcodes,     *)
(* metadata and page colours are known.                                    *)
(***************************************************************************)
TicketCandidate(type, data, page) ==
    Tagged(BarcodeInfo([type |-> type, data |-> data, rect |-> Rect(1, 1, 2, 2)]),
           page, <<"standard">>)

TicketCandidates ==
    { TicketCandidate("QRCODE", PayloadQ, 2),
      TicketCandidate("AZTEC", PayloadA, 1),
      TicketCandidate("DATAMATRIX", PayloadD, 1),
      TicketCandidate("CODE128", <<49, 50>>, 2) }

\* The extractor's result: candidates of pairwise different payloads
ExtractorResults ==
    { list \in SeqsUpTo(TicketCandidates, MaxCands) :
        \A i, j \in 1..Len(list) : i # j => list[i].raw_bytes # list[j].raw_bytes }

TextSoon == <<"s","o","o","n">>

Extractions ==
    [ document_type       : {"event_ticket", "generic"},
      title               : {TextJazzNight},
      organization        : {<<>>},
      date                : {<<>>, <<"2","0","2","6","-","1","1","-","0","7">>,
                             <<"0","0","9","9","-","1","1","-","0","7">>, TextSoon},
      time                : {<<>>, <<"2","0",":","0","0">>},
      venue_name          : {<<>>},
      seat_info           : {<<"A","1","2">>},
      gate_info           : {<<"G","7">>},
      performer           : {<<>>},
      confirmation_number : {<<"X","Y","Z","7">>},
      price               : {<<>>} ]

\* The upload by what the colour and asset steps get from its pages
Uploads ==
    [ dominant : {None, Some([color |-> [kind |-> "rgb", r |-> 200, g |-> 30, b |-> 30],
                              light |-> FALSE]),
                        Some([color |-> [kind |-> "rgb", r |-> 250, g |-> 220, b |-> 0],
                              light |-> TRUE])},
      assets   : { [n \in {"icon.png", "icon@2x.png", "icon@3x.png"} |-> PngDynamic] } ]

\* The deployment: its signing identity, and whether its C library pads %Y
Deployments ==
    [ env : {{}, EnvNames}, files : {{}}, wellformed : {TRUE}, pads_year : BOOLEAN ]

InitTickets ==
    /\ filename = NameTicket
    /\ image = <<>>
    /\ calls = <<>>
    /\ ran = <<>>
    /\ detected = {}
    /\ discarded = {}
    /\ hits = 0
    /\ passes = <<>>
    /\ warnings = <<>>
    /\ result = <<>>
    /\ pass_dir = <<>>
    /\ container = <<>>
    /\ issued = 0
    /\ pc = "upload_v2"
    /\ now = [year |-> 2026, month |-> 11, day |-> 5, hour |-> 10, minute |-> 15,
              second |-> 30]
    /\ doc \in Uploads
    /\ identity \in Deployments
    /\ pass_info \in Extractions
    /\ barcodes \in ExtractorResults

\* create_passes_v2: steps 2, 4 and 5
CreateTicketsV2 ==
    /\ pc = "upload_v2"
    /\ LET found == ExtractBarcodes(barcodes)
           made == TicketLoop(found.extracted, 1, Max(1, Len(found.extracted)),
                              found.warnings,
                              [ extraction |-> pass_info,
                                colors     |-> ExtractColors(doc.dominant,
                                                             pass_info.document_type),
                                clock      |-> now,
                                assets     |-> doc.assets,
                                identity   |-> identity ])
       IN  /\ passes' = made.passes
           /\ container' = made.pkpass_files
           /\ result' = made.ticket_info
           /\ warnings' = made.warnings
           /\ issued' = Len(made.passes)
    /\ pc' = "created_v2"
    /\ UNCHANGED <<filename, barcodes, callVars, pipeVars, identity, pass_dir, pass_info, now>>

SpecTickets == InitTickets /\ [][CreateTicketsV2]_vars

Created == pc = "created_v2"

\* The candidates of the upload that can be embedded
Embeddable == {i \in 1..Len(barcodes) : barcodes[i].type \notin UNSUPPORTED_FORMATS}

Violations(k) == validate_pass(passes[k]).errors

\* C26: when validate_pass reports violations for a ticket's pass
\* definition, generation goes on: every violation is in the returned
\* warnings as a 'Validation: ...' string, each distinct message once, and
\* the ticket is still packaged with its manifest (and signature when the
\* identity is available), so one container is returned per pass definition
\* and their number is max(1, n) as without violations.
C26_ViolationsWarnedTicketStillPackaged ==
    Created =>
        /\ Len(container) = Len(passes)
        /\ Len(passes) = Max(1, Cardinality(Embeddable))
        /\ \A k \in 1..Len(passes) :
              /\ \A e \in 1..Len(Violations(k)) :
                    Cardinality({w \in 1..Len(warnings) :
                                    warnings[w] = "Validation: " \o Violations(k)[e]}) = 1
              /\ container[k]["pass.json"] = PassJsonFile(passes[k])
              /\ "manifest.json" \in DOMAIN container[k]
              /\ CheckCertificatesAvailable(identity) => "signature" \in DOMAIN container[k]

\* Two tickets whose pass definitions both have the same violation
C26_Witness ==
    /\ Created
    /\ Len(passes) = 2
    /\ Violations(1) # <<>>
    /\ Violations(2) = Violations(1)
    /\ Len(container) = 2
    /\ Len(warnings) = Len(Violations(1))

\* The embeddable candidates in the order extract_barcodes returns them
EmbeddableInOrder ==
    SelectSeq(SortByPage(barcodes), LAMBDA bc : bc.type \notin UNSUPPORTED_FORMATS)

\* C29: create_passes_v2 returns max(1, n) containers and max(1, n)
\* ticket_info entries for n embeddable barcodes, numbered 1..max(1, n);
\* the i-th pass embeds the message and format of the i-th extracted
\* barcode, its barcodes being the one-element list of its barcode; a pass
\* beyond the n-th has neither.
C29_OnePassPerBarcodeInOrder ==
    Created =>
        LET n == Len(EmbeddableInOrder)
        IN  /\ Len(container) = Max(1, n)
            /\ Len(result) = Max(1, n)
            /\ Len(passes) = Max(1, n)
            /\ \A k \in 1..Len(result) :
                  /\ result[k].ticket_number = k
                  /\ result[k].total_tickets = Max(1, n)
            /\ \A k \in 1..Len(passes) :
                  IF k <= n
                  THEN /\ passes[k].barcode.message =
                              Latin1Decode(EmbeddableInOrder[k].raw_bytes)
                       /\ passes[k].barcode.format =
                              BARCODE_FORMAT_MAP(EmbeddableInOrder[k].type)
                       /\ passes[k].barcodes = <<passes[k].barcode>>
                       /\ result[k].barcode = Some([data   |-> passes[k].barcode.message,
                                                    type   |-> EmbeddableInOrder[k].type,
                                                    format |-> passes[k].barcode.format])
                  ELSE /\ ~HasBarcodeField(passes[k])
                       /\ result[k].barcode = None

\* Three candidates, an unsupported one among them and the page order
\* different from the list order: two passes with different barcodes
C29_Witness ==
    /\ Created
    /\ Len(barcodes) = 3
    /\ barcodes[1].page > barcodes[3].page
    /\ Len(passes) = 2
    /\ passes[1].barcode.message = Latin1Decode(barcodes[3].raw_bytes)
    /\ passes[2].barcode.message = Latin1Decode(barcodes[1].raw_bytes)
    /\ passes[1].barcode.format # passes[2].barcode.format

\* C30: every pass definition build_pass makes from the barcodes of
\* extract_barcodes and the colours of extract_colors passes validate_pass
\* with no violations.
C30_BuiltPassesAreValid ==
    Created => \A k \in 1..Len(passes) : Violations(k) = <<>>

ExpiryError == "expirationDate is not a valid ISO 8601 date string"

\* What holds of the built pass definitions: the only violation is that of
\* expirationDate, and it is reported exactly when the event date parses to
\* a year below 1000 on a platform that does not pad %Y.
C30_ValidUnlessShortYear ==
    Created =>
        \A k \in 1..Len(passes) :
            LET parsed == IF pass_info.date # <<>>
                          THEN ParseCombined(pass_info.date, pass_info.time) ELSE None
            IN  Violations(k) =
                   IF parsed # None /\ parsed[1].year < 1000 /\ ~identity.pads_year
                   THEN <<ExpiryError>> ELSE <<>>

(***************************************************************************)
(* SpecScratch: the scratch directory and scratch files of one packaging   *)
(* call.  pass_dir is the set of scratch paths that exist; a call returns  *)
(* or raises at one of its steps.                                          *)
(***************************************************************************)
\* The scratch paths after `with tempfile.TemporaryDirectory()`: the path
\* exists inside the block and __exit__ removes it on return and on raise;
\* the zip step (when reached) goes through a
\* `with tempfile.NamedTemporaryFile()` of its own in v1, through memory in v2
AfterTemporaryDirectory(paths, zip_file, zip_reached) ==
    LET in_dir == paths \cup {"temp_dir"}
        zipped == IF zip_file /\ zip_reached
                  THEN (in_dir \cup {"temp_zip"}) \ {"temp_zip"}
                  ELSE in_dir
    IN  zipped \ {"temp_dir"}

\* PassGenerator._sign_manifest: the file is created with delete=False and
\* written before the try block; os.unlink is in its finally
AfterSignManifest(paths, fails) ==
    LET created == paths \cup {"temp_file"}
    IN  IF fails = "write" THEN created ELSE created \ {"temp_file"}

PackagingSteps == <<"pass.json", "assets", "manifest", "signature", "zip">>

Outcome(call, fails) ==
    [call |-> call, raised |-> fails # "none", step |-> fails]

InitScratch ==
    /\ filename = <<>>
    /\ image = <<>>
    /\ calls = <<>>
    /\ doc = <<>>
    /\ ran = <<>>
    /\ detected = {}
    /\ discarded = {}
    /\ hits = 0
    /\ passes = <<>>
    /\ warnings = <<>>
    /\ barcodes = <<>>
    /\ result = <<>>
    /\ identity \in Identities
    /\ pass_dir = {}
    /\ container = <<>>
    /\ NotGenerating
    /\ pc = "package_scratch"

\* create_enhanced_pass, lines 683-713
ScratchV1 ==
    /\ pc = "package_scratch"
    /\ \E bytes \in PassJsonBytes :
       \E fails \in Range(PackagingSteps) \cup {"none"} :
       \E assets \in {<<>>, [n \in {"icon.png"} |-> PngStatic]} :
       \E listing \in Listings(WithAssets([n \in {"pass.json"} |-> bytes], assets)) :
         /\ pass_dir' = AfterTemporaryDirectory(pass_dir, TRUE, fails \in {"zip", "none"})
         /\ container' =
               IF fails = "none"
               THEN BuildPkpass(SignedDirV1(WithAssets([n \in {"pass.json"} |-> bytes], assets),
                                            listing, identity))
               ELSE <<>>
         /\ result' = Outcome("create_enhanced_pass", fails)
    /\ pc' = "left_scratch"
    /\ UNCHANGED <<filename, barcodes, identity, callVars, pipeVars, passVars, genVars>>

\* orchestrator._package_pass
ScratchV2 ==
    /\ pc = "package_scratch"
    /\ \E bytes \in PassJsonBytes :
       \E fails \in Range(PackagingSteps) \cup {"none"} :
       \E assets \in {<<>>, [n \in {"icon.png"} |-> PngStatic]} :
         /\ pass_dir' = AfterTemporaryDirectory(pass_dir, FALSE, fails \in {"zip", "none"})
         /\ container' =
               IF fails = "none"
               THEN BuildPkpass(SignedDirV2(WithAssets([n \in {"pass.json"} |-> bytes], assets),
                                            identity))
               ELSE <<>>
         /\ result' = Outcome("_package_pass", fails)
    /\ pc' = "left_scratch"
    /\ UNCHANGED <<filename, barcodes, identity, callVars, pipeVars, passVars, genVars>>

\* PassGenerator._sign_manifest(manifest_data)
ScratchSignManifest ==
    /\ pc = "package_scratch"
    /\ \E manifest_data \in PassJsonBytes :
       \E fails \in {"write", "none"} :
         /\ pass_dir' = AfterSignManifest(pass_dir, fails)
         /\ container' = IF fails = "none" THEN SignManifest(identity, manifest_data) ELSE <<>>
         /\ result' = Outcome("_sign_manifest", fails)
    /\ pc' = "left_scratch"
    /\ UNCHANGED <<filename, barcodes, identity, callVars, pipeVars, passVars, genVars>>

NextScratch == ScratchV1 \/ ScratchV2 \/ ScratchSignManifest

SpecScratch == InitScratch /\ [][NextScratch]_vars

C27_ScratchLeftOnlyWhenWriteRaises ==
    pc = "left_scratch" =>
        pass_dir = IF result.call = "_sign_manifest" /\ result.step = "write"
                   THEN {"temp_file"} ELSE {}

(***************************************************************************)
(* SpecConfidence: _calculate_confidence called on one decoded symbol.     *)
(***************************************************************************)
\* The symbol types scored: the three of the code's list, Aztec, and others
ScoredTypes ==
    {"QRCODE", "PDF417", "CODE128", "AZTEC", "CODE39", "EAN13", "DATAMATRIX"}

\* A pyzbar-like symbol: .type and .data, n bytes of one value
ScoredSymbols ==
    { [type |-> t, data |-> [i \in 1..n |-> b]] :
        t \in ScoredTypes, n \in 0..LongestPayload, b \in {65, 97} }

InitConfidence ==
    /\ Idle
    /\ barcodes \in { <<symbol>> : symbol \in ScoredSymbols }
    /\ result = 0
    /\ pc = "score"

Score ==
    /\ pc = "score"
    /\ result' = CalculateConfidence(barcodes[1])
    /\ pc' = "scored"
    /\ UNCHANGED <<filename, barcodes, callVars, pipeVars, passVars, pkgVars, genVars>>

SpecConfidence == InitConfidence /\ [][Score]_vars

LongPayload(symbol) == Len(symbol.data) > 20

\* C28: the score is min(100, 70 + 20 for a high-confidence format + 10 for a
\* payload longer than 20 bytes), within 0..100, Aztec being a high-confidence
\* format: Aztec with a long payload scores 100, CODE39 with a short one 70.
C28_AztecIsHighConfidence ==
    pc = "scored" =>
        LET symbol == barcodes[1]
            high == symbol.type \in {"QRCODE", "PDF417", "CODE128", "AZTEC"}
        IN  /\ result = Min(100, 70 + (IF high THEN 20 ELSE 0)
                                    + (IF LongPayload(symbol) THEN 10 ELSE 0))
            /\ result \in 0..100
            /\ symbol.type = "AZTEC" /\ LongPayload(symbol) => result = 100
            /\ symbol.type = "CODE39" /\ ~LongPayload(symbol) => result = 70

\* What holds: the same formula with QRCODE, PDF417 and CODE128 as the only
\* high-confidence formats, so that Aztec with a long payload scores 80.
C28_AztecScoresAsOther ==
    pc = "scored" =>
        LET symbol == barcodes[1]
            high == symbol.type \in {"QRCODE", "PDF417", "CODE128"}
        IN  /\ result = Min(100, 70 + (IF high THEN 20 ELSE 0)
                                    + (IF LongPayload(symbol) THEN 10 ELSE 0))
            /\ result \in 0..100
            /\ symbol.type = "AZTEC" /\ LongPayload(symbol) => result = 80
            /\ symbol.type = "CODE39" /\ ~LongPayload(symbol) => result = 70

====
